---- MODULE Spec2Model ----
(***************************************************************************)
(* Scan Engine of architest: the association of parsed OpenAPI specs to    *)
(* Docker Compose services (associateSpecsToServices) and the orchestrator *)
(* that sequences Compose parsing, spec discovery, spec parsing and        *)
(* association (scanProject).                                              *)
(*                                                                         *)
(* Optional values (TypeScript `x?: T`) are sequences of length 0 or 1:    *)
(* <<>> is undefined, <<v>> is the value v.                                *)
(* A path string is a record [abs, segs]: abs says whether it starts with  *)
(* "/", segs are its "/"-separated segments as written (not normalised).   *)
(* The empty string is [abs |-> FALSE, segs |-> <<>>].                     *)
(***************************************************************************)
EXTENDS Integers, Sequences, FiniteSets, TLC

\* ------------------------------------------------------------------ bounds

MaxServices == 2
MaxSpecs == 2
MaxDepends == 2

\* ------------------------------------------------------------------ paths

P(abs, segs) == [abs |-> abs, segs |-> segs]

\* process.cwd(): the directory relative paths are resolved against.
Cwd == P(TRUE, <<"work">>)

RECURSIVE NormSegs(_, _, _)
\* Node's path normalisation of a segment list: "." is dropped, ".." removes the
\* previous segment (at the root it is dropped; in a relative path with nothing
\* to remove it is kept).
NormSegs(abs, segs, acc) ==
    IF segs = <<>> THEN acc
    ELSE LET s == Head(segs)
             rest == Tail(segs)
         IN  IF s = "." THEN NormSegs(abs, rest, acc)
             ELSE IF s = ".."
                  THEN IF acc # <<>> /\ acc[Len(acc)] # ".."
                       THEN NormSegs(abs, rest, SubSeq(acc, 1, Len(acc) - 1))
                       ELSE IF abs THEN NormSegs(abs, rest, acc)
                            ELSE NormSegs(abs, rest, Append(acc, ".."))
                  ELSE NormSegs(abs, rest, Append(acc, s))

\* path.join(a, b): concatenate, then normalise; stays relative when a is relative.
PathJoin(a, b) ==
    IF a.segs = <<>> /\ ~a.abs
    THEN P(b.abs, NormSegs(b.abs, b.segs, <<>>))
    ELSE P(a.abs, NormSegs(a.abs, a.segs \o b.segs, <<>>))

\* path.resolve(p): absolute, normalised; a relative p is taken from the cwd.
PathResolve(p) ==
    IF p.abs THEN P(TRUE, NormSegs(TRUE, p.segs, <<>>))
    ELSE P(TRUE, NormSegs(TRUE, Cwd.segs \o p.segs, <<>>))

\* path.resolve(a, b): b if absolute, else b taken from resolve(a).
PathResolve2(a, b) ==
    IF b.abs THEN PathResolve(b)
    ELSE P(TRUE, NormSegs(TRUE, PathResolve(a).segs \o b.segs, <<>>))

IsPrefix(s, t) == Len(s) <= Len(t) /\ SubSeq(t, 1, Len(s)) = s

\* fs.existsSync(p) on a filesystem given by its files (a function from the
\* absolute normalised path of each file to its content): a file exists, and
\* so does every directory above a file.
ExistsSync(files, p) ==
    \E f \in DOMAIN files : IsPrefix(PathResolve(p).segs, f.segs)

\* JavaScript truthiness of an optional string: undefined and "" are falsy.
TruthyPath(opt) == opt # <<>> /\ opt[1] # P(FALSE, <<>>)

\* ------------------------------------------------------------------ URLs

\* A URL string as written: kind "absolute" is scheme://host[:port][/path],
\* kind "empty" is "", kind "relative" is any string without a scheme.
\* port is the written port (optional).
Url(kind, scheme, port) == [kind |-> kind, scheme |-> scheme, port |-> port]

\* The default port of the WHATWG special schemes; <<>> for any other scheme.
DefaultPort(scheme) ==
    CASE scheme = "http" -> <<80>>
      [] scheme = "https" -> <<443>>
      [] scheme = "ws" -> <<80>>
      [] scheme = "wss" -> <<443>>
      [] scheme = "ftp" -> <<21>>
      [] OTHER -> <<>>

\* new URL(url): throws on a string that is not an absolute URL or whose port
\* exceeds 16 bits; the port property is "" (here <<>>) when no port is written
\* or the written port is the scheme's default.
NewURL(url) ==
    IF url.kind # "absolute" \/ (url.port # <<>> /\ url.port[1] > 65535)
    THEN [threw |-> TRUE, protocol |-> "", port |-> <<>>]
    ELSE [threw |-> FALSE,
          protocol |-> url.scheme,
          port |-> IF url.port = DefaultPort(url.scheme) THEN <<>> ELSE url.port]

\* extractPortFromUrl without its try/catch: an invalid URL raises.
extractPortFromUrlNoCatch(url) ==
    LET parsed == NewURL(url)
    IN  IF parsed.threw THEN [threw |-> TRUE, port |-> <<>>]
        ELSE IF parsed.port # <<>> THEN [threw |-> FALSE, port |-> parsed.port]
        ELSE IF parsed.protocol = "https" THEN [threw |-> FALSE, port |-> <<443>>]
        ELSE IF parsed.protocol = "http" THEN [threw |-> FALSE, port |-> <<80>>]
        ELSE [threw |-> FALSE, port |-> <<>>]

\* extractPortFromUrl(url): number | null (port <<>> is null); never raises.
extractPortFromUrl(url) ==
    LET parsed == NewURL(url)
    IN  IF parsed.threw THEN [threw |-> FALSE, port |-> <<>>]
        ELSE IF parsed.port # <<>> THEN [threw |-> FALSE, port |-> parsed.port]
        ELSE IF parsed.protocol = "https" THEN [threw |-> FALSE, port |-> <<443>>]
        ELSE IF parsed.protocol = "http" THEN [threw |-> FALSE, port |-> <<80>>]
        ELSE [threw |-> FALSE, port |-> <<>>]

\* JavaScript truthiness of an optional URL string.
TruthyUrl(opt) == opt # <<>> /\ opt[1].kind # "empty"

\* ------------------------------------------------------------------ discovery

\* The candidate list of discoverServiceSpecs, in order.
specNames ==
    << <<"openapi.json">>, <<"openapi.yml">>, <<"openapi.yaml">>,
       <<"swagger.json">>, <<"swagger.yml">>, <<"swagger.yaml">>,
       <<"docs", "openapi.json">>, <<"docs", "openapi.yml">>, <<"docs", "openapi.yaml">>,
       <<"api", "openapi.json">>, <<"api", "openapi.yml">>, <<"api", "openapi.yaml">> >>

\* The candidates of `names` under `dir` that exist, in candidate order.
FoundUnder(files, dir, names) ==
    LET full == [k \in 1..Len(names) |-> PathJoin(dir, P(FALSE, names[k]))]
        Present(p) == ExistsSync(files, p)
    IN  SelectSeq(full, Present)

\* discoverServiceSpecs(projectPath, buildContext)
discoverServiceSpecs(files, project, buildContext) ==
    IF ~TruthyPath(buildContext) THEN <<>>
    ELSE LET serviceDir == PathResolve2(project, buildContext[1])
         IN  IF ~ExistsSync(files, serviceDir) THEN <<>>
             ELSE FoundUnder(files, serviceDir, specNames)

\* ------------------------------------------------------------------ documents

\* A parsed YAML/JSON value: [t |-> "null"], [t |-> "str", v |-> ...],
\* [t |-> "num", v |-> n], [t |-> "seq", items |-> <<...>>] or
\* [t |-> "map", pairs |-> << <<key, value>>, ... >>] (keys in source order).
\* The v of a string is its text in the form its reader takes it in: a path
\* record for a build context, a Url record for a URL, a sequence of characters
\* for a port token, a TLA+ string for a name.
YNull == [t |-> "null"]

YStr(v) == [t |-> "str", v |-> v, empty |-> FALSE]

\* The empty string.
YEmpty == [t |-> "str", v |-> "", empty |-> TRUE]

YNum(n) == [t |-> "num", v |-> n]

YSeq(items) == [t |-> "seq", items |-> items]

YMap(pairs) == [t |-> "map", pairs |-> pairs]

\* obj.key in JavaScript: the optional value of `key` (the first pair with that
\* key); <<>> (undefined) when obj is not a mapping or has no such key.
Get(obj, key) ==
    IF obj.t # "map" THEN <<>>
    ELSE LET hits == {k \in 1..Len(obj.pairs) : obj.pairs[k][1] = key}
         IN  IF hits = {} THEN <<>>
             ELSE <<obj.pairs[CHOOSE k \in hits : \A j \in hits : k <= j][2]>>

\* The array index a property key is, if it is one (the canonical numeral of a
\* small non-negative integer); <<>> for any other key. The index-like keys
\* of the modelled documents are listed.
ArrayIndex(key) ==
    CASE key = "0" -> <<0>> [] key = "1" -> <<1>> [] key = "2" -> <<2>>
      [] key = "3" -> <<3>> [] OTHER -> <<>>

RECURSIVE Ascending(_, _)
\* The pairs at the positions `at`, by ascending array index of their keys.
Ascending(pairs, at) ==
    IF at = {} THEN <<>>
    ELSE LET least == CHOOSE k \in at :
                         \A j \in at : ArrayIndex(pairs[k][1])[1] <= ArrayIndex(pairs[j][1])[1]
         IN  <<pairs[least]>> \o Ascending(pairs, at \ {least})

\* The own properties of the object yaml.load builds from a mapping, in the
\* order Object.keys and Object.entries enumerate them: the keys that are array
\* indices first, in ascending order, then the other keys in source order.
OwnPairs(pairs) ==
    LET IsIndex(pr) == ArrayIndex(pr[1]) # <<>>
        IsName(pr) == ArrayIndex(pr[1]) = <<>>
    IN  Ascending(pairs, {k \in 1..Len(pairs) : IsIndex(pairs[k])})
          \o SelectSeq(pairs, IsName)

\* opt?.key
GetOpt(opt, key) == IF opt = <<>> THEN <<>> ELSE Get(opt[1], key)

\* undefined or null (what `??` replaces).
Nullish(opt) == opt = <<>> \/ opt[1].t = "null"

\* JavaScript truthiness of an optional document value.
Truthy(opt) ==
    /\ ~Nullish(opt)
    /\ ~(opt[1].t = "num" /\ opt[1].v = 0)
    /\ ~(opt[1].t = "str" /\ opt[1].empty)

\* typeof x === 'object' for a value that is not null.
IsObject(opt) == opt # <<>> /\ opt[1].t \in {"seq", "map"}

IsString(opt) == opt # <<>> /\ opt[1].t = "str"

\* ------------------------------------------------------------------ port grammar

Digits == {"0", "1", "2", "3", "4", "5", "6", "7", "8", "9"}

DigitValue(c) ==
    CASE c = "0" -> 0 [] c = "1" -> 1 [] c = "2" -> 2 [] c = "3" -> 3 [] c = "4" -> 4
      [] c = "5" -> 5 [] c = "6" -> 6 [] c = "7" -> 7 [] c = "8" -> 8 [] c = "9" -> 9

RECURSIVE SkipSpaces(_)
SkipSpaces(chars) ==
    IF chars # <<>> /\ Head(chars) = " " THEN SkipSpaces(Tail(chars)) ELSE chars

RECURSIVE DigitsValue(_, _, _)
\* The value of the longest prefix of digits of chars, <<>> when it is empty.
DigitsValue(chars, acc, seen) ==
    IF chars # <<>> /\ Head(chars) \in Digits
    THEN DigitsValue(Tail(chars), 10 * acc + DigitValue(Head(chars)), TRUE)
    ELSE IF seen THEN <<acc>> ELSE <<>>

\* parseInt(chars, 10): optional number, <<>> is NaN. Leading blanks and one
\* sign are accepted; reading stops at the first character that is not a digit.
ParseInt(chars) ==
    LET body == SkipSpaces(chars)
    IN  IF body # <<>> /\ Head(body) = "-"
        THEN LET n == DigitsValue(Tail(body), 0, FALSE)
             IN  IF n = <<>> THEN <<>> ELSE <<0 - n[1]>>
        ELSE IF body # <<>> /\ Head(body) = "+"
             THEN DigitsValue(Tail(body), 0, FALSE)
             ELSE DigitsValue(body, 0, FALSE)

\* str.lastIndexOf(c), 1-based; 0 when c does not occur.
LastIndexOf(chars, c) ==
    LET at == {k \in 1..Len(chars) : chars[k] = c}
    IN  IF at = {} THEN 0 ELSE CHOOSE k \in at : \A j \in at : j <= k

RECURSIVE Split(_, _, _)
\* str.split(sep): the pieces between the separators (cur is the piece being read).
Split(chars, sep, cur) ==
    IF chars = <<>> THEN <<cur>>
    ELSE IF Head(chars) = sep THEN <<cur>> \o Split(Tail(chars), sep, <<>>)
         ELSE Split(Tail(chars), sep, Append(cur, Head(chars)))

\* parsePort reading the first two of three segments as host and container.
parsePortFirstTwo(port) ==
    IF port.t = "num"
    THEN <<[host |-> port.v, container |-> port.v, protocol |-> <<>>]>>
    ELSE IF port.t # "str" THEN <<>>
    ELSE LET str == port.v
             slashIdx == LastIndexOf(str, "/")
             protocol == IF slashIdx # 0 /\ slashIdx < Len(str)
                         THEN <<SubSeq(str, slashIdx + 1, Len(str))>> ELSE <<>>
             portPart == IF slashIdx # 0 THEN SubSeq(str, 1, slashIdx - 1) ELSE str
             segments == Split(portPart, ":", <<>>)
             n == Len(segments)
             host == ParseInt(segments[1])
             container == IF n = 1 THEN host ELSE ParseInt(segments[2])
         IN  IF n > 3 \/ host = <<>> \/ container = <<>> THEN <<>>
             ELSE <<[host |-> host[1], container |-> container[1],
                     protocol |-> protocol]>>

\* parsePort(port): optional PortMapping, <<>> is null.
parsePort(port) ==
    IF port.t = "num"
    THEN <<[host |-> port.v, container |-> port.v, protocol |-> <<>>]>>
    ELSE IF port.t # "str" THEN <<>>
    ELSE LET str == port.v
             slashIdx == LastIndexOf(str, "/")
             protocol == IF slashIdx # 0 /\ slashIdx < Len(str)
                         THEN <<SubSeq(str, slashIdx + 1, Len(str))>> ELSE <<>>
             portPart == IF slashIdx # 0 THEN SubSeq(str, 1, slashIdx - 1) ELSE str
             segments == Split(portPart, ":", <<>>)
             n == Len(segments)
             host == IF n = 3 THEN ParseInt(segments[2]) ELSE ParseInt(segments[1])
             container == IF n = 1 THEN host ELSE ParseInt(segments[n])
         IN  IF n > 3 \/ host = <<>> \/ container = <<>> THEN <<>>
             ELSE <<[host |-> host[1], container |-> container[1],
                     protocol |-> protocol]>>

\* ------------------------------------------------------------------ compose parser

COMPOSE_FILENAMES ==
    <<"docker-compose.yml", "docker-compose.yaml", "compose.yml", "compose.yaml">>

\* findComposeFile returning the last of the conventional filenames that exists.
findComposeFileLast(files, project) ==
    LET full == [k \in 1..Len(COMPOSE_FILENAMES) |->
                    PathJoin(project, P(FALSE, <<COMPOSE_FILENAMES[k]>>))]
        found == {k \in 1..Len(full) : ExistsSync(files, full[k])}
    IN  IF found = {} THEN <<>>
        ELSE <<full[CHOOSE k \in found : \A j \in found : j <= k]>>

\* findComposeFile(projectPath): optional path, <<>> is null.
findComposeFile(files, project) ==
    LET full == [k \in 1..Len(COMPOSE_FILENAMES) |->
                    PathJoin(project, P(FALSE, <<COMPOSE_FILENAMES[k]>>))]
        found == {k \in 1..Len(full) : ExistsSync(files, full[k])}
    IN  IF found = {} THEN <<>>
        ELSE <<full[CHOOSE k \in found : \A j \in found : k <= j]>>

\* parseDependsOn(raw)
parseDependsOn(raw) ==
    IF ~Truthy(raw) THEN <<>>
    ELSE IF raw[1].t = "seq"
    THEN LET IsStr(v) == v.t = "str"
             strings == SelectSeq(raw[1].items, IsStr)
         IN  [k \in 1..Len(strings) |-> strings[k].v]
    ELSE IF raw[1].t = "map"
    THEN LET own == OwnPairs(raw[1].pairs)
         IN  [k \in 1..Len(own) |-> own[k][1]]
    ELSE <<>>

\* The body of the services map of parseDockerCompose for one entry [name, def].
\* A build context that is given but is not a string is outside the documents
\* modelled here.
ParseService(name, def) ==
    LET rawPorts == IF Nullish(Get(def, "ports")) THEN <<>> ELSE Get(def, "ports")[1].items
        parsed == [k \in 1..Len(rawPorts) |-> parsePort(rawPorts[k])]
        NotNull(p) == p # <<>>
        kept == SelectSeq(parsed, NotNull)
        rawBuild == Get(def, "build")
        build == IF IsString(rawBuild)
                 THEN IF rawBuild[1].empty THEN <<P(FALSE, <<>>)>> ELSE <<rawBuild[1].v>>
                 ELSE IF IsObject(rawBuild) /\ IsString(Get(rawBuild[1], "context"))
                      THEN <<Get(rawBuild[1], "context")[1].v>>
                      ELSE <<>>
        image == IF IsString(Get(def, "image")) THEN <<Get(def, "image")[1].v>> ELSE <<>>
    IN  [name |-> name,
         image |-> image,
         build |-> build,
         ports |-> [k \in 1..Len(kept) |-> kept[k][1]],
         dependsOn |-> parseDependsOn(Get(def, "depends_on"))]

\* Object.entries(rawServices): the pairs of a mapping; of a sequence, the items
\* under their positions "0", "1", ...
IndexKey(k) == CASE k = 1 -> "0" [] k = 2 -> "1" [] k = 3 -> "2" [] OTHER -> "n"

Entries(obj) ==
    IF obj.t = "map" THEN OwnPairs(obj.pairs)
    ELSE [k \in 1..Len(obj.items) |-> <<IndexKey(k), obj.items[k]>>]

\* Whether reading def.ports, def.build, ... or mapping over def.ports raises a
\* TypeError: def is null, or ports is given and is not a sequence.
ServiceRaises(def) ==
    \/ def.t = "null"
    \/ (~Nullish(Get(def, "ports")) /\ Get(def, "ports")[1].t # "seq")

\* parseDockerCompose(filePath): [error, result]; error "" means it returned.
\* A file's content is [syntax |-> "ok" | "bad", doc |-> the parsed value].
parseDockerCompose(files, filePath) ==
    LET Fail(kind) == [error |-> kind, result |-> <<>>]
        at == PathResolve(filePath)
    IN  IF at \notin DOMAIN files THEN Fail("NotFound")
        ELSE IF files[at].syntax # "ok" THEN Fail("MalformedDocument")
        ELSE LET doc == files[at].doc
                 rawServices == Get(doc, "services")
             IN  IF ~IsObject(<<doc>>) THEN Fail("SchemaViolation")
                 ELSE IF ~Truthy(rawServices) \/ ~IsObject(rawServices)
                 THEN Fail("SchemaViolation")
                 ELSE LET entries == Entries(rawServices[1])
                      IN  IF \E k \in 1..Len(entries) : ServiceRaises(entries[k][2])
                          THEN Fail("TypeError")
                          ELSE [error |-> "",
                                result |->
                                  <<[filePath |-> filePath,
                                     version |-> IF IsString(Get(doc, "version"))
                                                 THEN <<Get(doc, "version")[1].v>>
                                                 ELSE <<>>,
                                     services |->
                                       [k \in 1..Len(entries) |->
                                          ParseService(entries[k][1], entries[k][2])]]>>]

\* parseProjectCompose(projectPath); the error raised when no Compose file is
\* found carries the filenames its message lists (looked).
parseProjectCompose(files, project) ==
    LET filePath == findComposeFile(files, project)
    IN  IF filePath = <<>>
        THEN [error |-> "NotFound", result |-> <<>>, looked |-> COMPOSE_FILENAMES]
        ELSE parseDockerCompose(files, filePath[1])

\* ------------------------------------------------------------------ spec parser

\* SPEC_SEARCH_PATHS: the candidate list of discoverOpenAPISpecs, in order.
SPEC_SEARCH_PATHS ==
    << <<"openapi.json">>, <<"openapi.yml">>, <<"openapi.yaml">>,
       <<"swagger.json">>, <<"swagger.yml">>, <<"swagger.yaml">>,
       <<"docs", "openapi.json">>, <<"docs", "openapi.yml">>, <<"docs", "openapi.yaml">>,
       <<"docs", "swagger.json">>, <<"docs", "swagger.yml">>, <<"docs", "swagger.yaml">>,
       <<"api", "openapi.json">>, <<"api", "openapi.yml">>, <<"api", "openapi.yaml">>,
       <<"api", "swagger.json">>, <<"api", "swagger.yml">>, <<"api", "swagger.yaml">> >>

\* discoverOpenAPISpecs searching the candidates of discoverServiceSpecs.
discoverOpenAPISpecsNarrow(files, project) == FoundUnder(files, project, specNames)

\* discoverOpenAPISpecs(projectPath)
discoverOpenAPISpecs(files, project) == FoundUnder(files, project, SPEC_SEARCH_PATHS)

\* HTTP_METHODS without its last verb.
HTTP_METHODS_NoHead == <<"get", "post", "put", "delete", "patch", "options">>

HTTP_METHODS == <<"get", "post", "put", "delete", "patch", "options", "head">>

\* method.toUpperCase() on the seven verbs.
ToUpperCase(method) ==
    CASE method = "get" -> "GET" [] method = "post" -> "POST" [] method = "put" -> "PUT"
      [] method = "delete" -> "DELETE" [] method = "patch" -> "PATCH"
      [] method = "options" -> "OPTIONS" [] method = "head" -> "HEAD"

\* resolveRef(obj, schemaMap). The text of a $ref string is
\* [before, pool, name]: `before` says whether text precedes the "#", pool is
\* "components/schemas", "definitions" or anything else, name is what follows
\* the pool's "/". The pattern is not anchored, so `before` does not matter.
resolveRef(obj, schemaMap) ==
    LET ref == Get(obj, "$ref")
    IN  IF ~Truthy(ref) \/ ~IsString(ref) THEN obj
        ELSE IF ref[1].v.pool \notin {"components/schemas", "definitions"} THEN obj
        ELSE LET resolved == Get(schemaMap, ref[1].v.name)
             IN  IF Truthy(resolved) /\ IsObject(resolved) THEN resolved[1] ELSE obj

\* extractResponses(rawResponses, schemaMap)
extractResponses(rawResponses, schemaMap) ==
    IF ~Truthy(rawResponses) THEN <<>>
    ELSE LET all == Entries(rawResponses[1])
             IsDef(e) == Truthy(<<e[2]>>) /\ IsObject(<<e[2]>>)
             defs == SelectSeq(all, IsDef)
             Schema(def) ==
                 LET json == GetOpt(GetOpt(Get(def, "content"), "application/json"), "schema")
                     first == IF Truthy(json) THEN <<resolveRef(json[1], schemaMap)>> ELSE <<>>
                 IN  IF first = <<>> /\ Truthy(Get(def, "schema"))
                     THEN <<resolveRef(Get(def, "schema")[1], schemaMap)>>
                     ELSE first
         IN  [k \in 1..Len(defs) |->
                [statusCode |-> defs[k][1],
                 description |-> IF Nullish(Get(defs[k][2], "description")) THEN <<>>
                                 ELSE Get(defs[k][2], "description"),
                 schema |-> Schema(defs[k][2])]]

RECURSIVE Flatten(_)
Flatten(seqs) == IF seqs = <<>> THEN <<>> ELSE Head(seqs) \o Flatten(Tail(seqs))

\* The endpoints of one path entry: one per HTTP method present, in method order.
PathEndpoints(routePath, pathItem, schemaMap) ==
    IF ~Truthy(<<pathItem>>) \/ ~IsObject(<<pathItem>>) THEN <<>>
    ELSE LET Present(m) == Truthy(Get(pathItem, m))
             methods == SelectSeq(HTTP_METHODS, Present)
             Opt(v) == IF Nullish(v) THEN <<>> ELSE v
         IN  [k \in 1..Len(methods) |->
                LET operation == Get(pathItem, methods[k])[1]
                IN  [method |-> ToUpperCase(methods[k]),
                     path |-> routePath,
                     summary |-> Opt(Get(operation, "summary")),
                     operationId |-> Opt(Get(operation, "operationId")),
                     responses |-> extractResponses(Get(operation, "responses"), schemaMap)]]

\* The base URL of parseOpenAPISpec: servers[0].url, else for a Swagger 2.x
\* document `${scheme}://${host}${basePath}`. A host's text is [port |-> optional
\* written port]; a scheme's text is its name; the synthesized URL keeps the
\* basePath text as its path.
BaseUrl(doc) ==
    LET servers == Get(doc, "servers")
        first == IF Truthy(servers) /\ servers[1].t = "seq" /\ Len(servers[1].items) > 0
                 THEN Get(servers[1].items[1], "url") ELSE <<>>
        fromServers == IF IsString(first)
                       THEN IF first[1].empty THEN <<Url("empty", "", <<>>)>>
                            ELSE <<first[1].v>>
                       ELSE <<>>
        host == Get(doc, "host")
        basePath == Get(doc, "basePath")
        schemes == Get(doc, "schemes")
        scheme == IF Nullish(schemes) THEN "http"
                  ELSE IF schemes[1].t = "seq" /\ Len(schemes[1].items) > 0
                       THEN schemes[1].items[1].v
                       ELSE "undefined"
    IN  IF TruthyUrl(fromServers) THEN fromServers
        ELSE IF Truthy(Get(doc, "swagger")) /\ Truthy(host)
        THEN <<[kind |-> "absolute", scheme |-> scheme, port |-> host[1].v.port,
                path |-> IF Nullish(basePath) THEN "" ELSE basePath[1].v]>>
        ELSE fromServers

\* Whether reading servers[0].url raises a TypeError: the first server is null.
ServersRaise(doc) ==
    LET servers == Get(doc, "servers")
    IN  /\ Truthy(servers) /\ servers[1].t = "seq" /\ Len(servers[1].items) > 0
        /\ servers[1].items[1].t = "null"

\* parseOpenAPISpec(filePath): [error, result]; error "" means it returned.
parseOpenAPISpec(files, filePath) ==
    LET Fail(kind) == [error |-> kind, result |-> <<>>]
        at == PathResolve(filePath)
    IN  IF ~ExistsSync(files, filePath) \/ at \notin DOMAIN files THEN Fail("NotFound")
        ELSE IF files[at].syntax # "ok" THEN Fail("MalformedDocument")
        ELSE LET doc == files[at].doc
                 info == IF Nullish(Get(doc, "info")) THEN YMap(<<>>) ELSE Get(doc, "info")[1]
                 Text(opt, default) == IF Nullish(opt) THEN default ELSE opt[1].v
                 schemas == GetOpt(Get(doc, "components"), "schemas")
                 definitions == Get(doc, "definitions")
                 schemaMap == IF ~Nullish(schemas) THEN schemas[1]
                              ELSE IF ~Nullish(definitions) THEN definitions[1]
                              ELSE YMap(<<>>)
                 paths == IF Nullish(Get(doc, "paths")) THEN <<>>
                          ELSE Entries(Get(doc, "paths")[1])
             IN  IF ~IsObject(<<doc>>) THEN Fail("SchemaViolation")
                 ELSE IF ~Truthy(Get(doc, "openapi")) /\ ~Truthy(Get(doc, "swagger"))
                 THEN Fail("NotAnAPISpec")
                 ELSE IF ServersRaise(doc) THEN Fail("TypeError")
                 ELSE [error |-> "",
                       result |->
                         <<[filePath |-> filePath,
                            title |-> Text(Get(info, "title"), "Untitled API"),
                            version |-> Text(Get(info, "version"), "0.0.0"),
                            baseUrl |-> BaseUrl(doc),
                            endpoints |->
                              Flatten([k \in 1..Len(paths) |->
                                         PathEndpoints(paths[k][1], paths[k][2],
                                                       schemaMap)])]>>]

\* ------------------------------------------------------------------ state

VARIABLES
    fs,             \* the filesystem: absolute file path -> content
    projectPath,    \* the projectPath argument
    services,       \* associate's input: sequence of DockerService
    parsedSpecs,    \* associate's input: sequence of OpenAPIResult
    pc,             \* position in the running call
    idx,            \* position of the running loop in its list (1-based)
    usedSpecPaths,  \* associate's local set of claimed resolved paths
    enriched,       \* associate's local list of EnrichedService
    associated,     \* associate's return value (optional)
    compose,        \* scanProject's local DockerComposeResult (optional)
    discoveredSpecs,\* scanProject's local list of discovered paths
    parseErrors,    \* scanProject's local list of per-spec parse failures
    scanError,      \* the error scanProject rejected with (optional)
    scanResult,     \* scanProject's return value (optional)
    call,           \* a direct call of one parser function: [fn, arg]
    ret             \* that call's return value (optional)

assocVars == <<usedSpecPaths, enriched, associated>>

scanVars == <<compose, discoveredSpecs, parseErrors, scanError, scanResult>>

callVars == <<call, ret>>

\* No direct call of a parser function is under way.
NoCall == [fn |-> "none", arg |-> <<>>]

vars == <<fs, projectPath, services, parsedSpecs, pc, idx, usedSpecPaths,
          enriched, associated, compose, discoveredSpecs, parseErrors, scanError,
          scanResult, call, ret>>

\* ------------------------------------------------------------------ associate

\* parsedSpecs.find((s) => path.resolve(s.filePath) === normalized), optional.
FindSpec(specs, normalized) ==
    LET hits == {k \in 1..Len(specs) : PathResolve(specs[k].filePath) = normalized}
    IN  IF hits = {} THEN <<>>
        ELSE <<specs[CHOOSE k \in hits : \A j \in hits : k <= j]>>

RECURSIVE Pass1ScanReuse(_, _, _)
\* Pass1Scan without the check of the claimed paths.
Pass1ScanReuse(cands, specs, used) ==
    IF cands = <<>> THEN [matched |-> <<>>, used |-> used]
    ELSE LET normalized == PathResolve(Head(cands))
             spec == FindSpec(specs, normalized)
         IN  IF spec # <<>>
             THEN [matched |-> spec, used |-> used \cup {normalized}]
             ELSE Pass1ScanReuse(Tail(cands), specs, used)

RECURSIVE Pass1ScanLast(_, _, _)
\* Pass1Scan without the break: a later usable candidate replaces an earlier one.
Pass1ScanLast(cands, specs, used) ==
    IF cands = <<>> THEN [matched |-> <<>>, used |-> used]
    ELSE LET normalized == PathResolve(Head(cands))
             spec == FindSpec(specs, normalized)
             later == Pass1ScanLast(Tail(cands), specs, used)
         IN  IF later.matched # <<>> THEN later
             ELSE IF spec # <<>> /\ normalized \notin used
                  THEN [matched |-> spec, used |-> used \cup {normalized}]
                  ELSE later

\* Pass1Scan that looks at the first candidate only.
Pass1ScanFirstOnly(cands, specs, used) ==
    IF cands = <<>> THEN [matched |-> <<>>, used |-> used]
    ELSE LET normalized == PathResolve(Head(cands))
             spec == FindSpec(specs, normalized)
         IN  IF spec # <<>> /\ normalized \notin used
             THEN [matched |-> spec, used |-> used \cup {normalized}]
             ELSE [matched |-> <<>>, used |-> used]

RECURSIVE Pass1Scan(_, _, _)
\* The candidate loop of Pass 1: the first candidate path that is the resolved
\* path of a parsed spec and is not in `used` is matched and added to `used`.
Pass1Scan(cands, specs, used) ==
    IF cands = <<>> THEN [matched |-> <<>>, used |-> used]
    ELSE LET normalized == PathResolve(Head(cands))
             spec == FindSpec(specs, normalized)
         IN  IF spec # <<>> /\ normalized \notin used
             THEN [matched |-> spec, used |-> used \cup {normalized}]
             ELSE Pass1Scan(Tail(cands), specs, used)

\* Enrich that copies the service field by field and forgets the image.
EnrichNoImage(service, matched) ==
    [name |-> service.name, image |-> <<>>, build |-> service.build,
     ports |-> service.ports, dependsOn |-> service.dependsOn, openapi |-> matched]

\* { ...service, openapi: matched }
Enrich(service, matched) ==
    [name |-> service.name, image |-> service.image, build |-> service.build,
     ports |-> service.ports, dependsOn |-> service.dependsOn, openapi |-> matched]

\* ContainerPorts taking the host side of each mapping.
HostPorts(service) == {service.ports[k].host : k \in 1..Len(service.ports)}

\* new Set(enrichedService.ports.map((p) => p.container))
ContainerPorts(service) == {service.ports[k].container : k \in 1..Len(service.ports)}

RECURSIVE Pass2ScanReuse(_, _, _)
\* Pass2Scan without the check of the claimed paths.
Pass2ScanReuse(specs, ports, used) ==
    IF specs = <<>> THEN [matched |-> <<>>, used |-> used, threw |-> FALSE]
    ELSE LET spec == Head(specs)
             normalized == PathResolve(spec.filePath)
         IN  IF ~TruthyUrl(spec.baseUrl) THEN Pass2ScanReuse(Tail(specs), ports, used)
             ELSE LET specPort == extractPortFromUrl(spec.baseUrl[1])
                  IN  IF specPort.port # <<>> /\ specPort.port[1] \in ports
                      THEN [matched |-> <<spec>>, used |-> used \cup {normalized},
                            threw |-> FALSE]
                      ELSE Pass2ScanReuse(Tail(specs), ports, used)

RECURSIVE Pass2Scan(_, _, _)
\* The spec loop of Pass 2 for one service with container ports `ports`.
Pass2Scan(specs, ports, used) ==
    IF specs = <<>> THEN [matched |-> <<>>, used |-> used, threw |-> FALSE]
    ELSE LET spec == Head(specs)
             normalized == PathResolve(spec.filePath)
         IN  IF normalized \in used THEN Pass2Scan(Tail(specs), ports, used)
             ELSE IF ~TruthyUrl(spec.baseUrl) THEN Pass2Scan(Tail(specs), ports, used)
             ELSE LET specPort == extractPortFromUrl(spec.baseUrl[1])
                  IN  IF specPort.threw
                      THEN [matched |-> <<>>, used |-> used, threw |-> TRUE]
                      ELSE IF specPort.port # <<>> /\ specPort.port[1] \in ports
                      THEN [matched |-> <<spec>>, used |-> used \cup {normalized},
                            threw |-> FALSE]
                      ELSE Pass2Scan(Tail(specs), ports, used)

\* `for (const service of services)`: the loop has a next service, or is over.
Pass1More == pc = "pass1" /\ idx <= Len(services)

Pass1Over == pc = "pass1" /\ idx > Len(services)

\* `for (const enrichedService of enriched)`: has a next service, or is over.
Pass2More == pc = "pass2" /\ idx <= Len(enriched)

Pass2Over == pc = "pass2" /\ idx > Len(enriched)

\* Pass1Step that attaches in place: `service.openapi = matched` and
\* `enriched.push(service)`, so the input object carries the attachment.
Pass1StepInPlace ==
    /\ Pass1More
    /\ LET service == services[idx]
           r == IF TruthyPath(service.build)
                THEN Pass1Scan(discoverServiceSpecs(fs, projectPath, service.build),
                               parsedSpecs, usedSpecPaths)
                ELSE [matched |-> <<>>, used |-> usedSpecPaths]
       IN  /\ enriched' = Append(enriched, Enrich(service, r.matched))
           /\ services' = [services EXCEPT ![idx] = Enrich(service, r.matched)]
           /\ usedSpecPaths' = r.used
    /\ idx' = idx + 1
    /\ UNCHANGED <<callVars, fs, projectPath, parsedSpecs, pc, associated, scanVars>>

\* One iteration of the Pass 1 loop: the service at idx.
Pass1Step ==
    /\ Pass1More
    /\ LET service == services[idx]
           r == IF TruthyPath(service.build)
                THEN Pass1Scan(discoverServiceSpecs(fs, projectPath, service.build),
                               parsedSpecs, usedSpecPaths)
                ELSE [matched |-> <<>>, used |-> usedSpecPaths]
       IN  /\ enriched' = Append(enriched, Enrich(service, r.matched))
           /\ usedSpecPaths' = r.used
    /\ idx' = idx + 1
    /\ UNCHANGED <<callVars, fs, projectPath, services, parsedSpecs, pc, associated, scanVars>>

\* The Pass 1 loop is exhausted: Pass 2 starts at the first enriched service.
Pass1End ==
    /\ Pass1Over
    /\ pc' = "pass2"
    /\ idx' = 1
    /\ UNCHANGED <<callVars, fs, projectPath, services, parsedSpecs, assocVars, scanVars>>

\* Pass2Step without `if (enrichedService.openapi) continue`: a service that
\* holds a co-located spec is matched by port again.
Pass2StepNoSkip ==
    /\ Pass2More
    /\ LET e == enriched[idx]
           r == Pass2Scan(parsedSpecs, ContainerPorts(e), usedSpecPaths)
       IN  IF Len(e.ports) = 0 \/ r.matched = <<>>
           THEN UNCHANGED <<enriched, usedSpecPaths>>
           ELSE /\ enriched' = [enriched EXCEPT ![idx].openapi = r.matched]
                /\ usedSpecPaths' = r.used
    /\ idx' = idx + 1
    /\ UNCHANGED <<callVars, fs, projectPath, services, parsedSpecs, pc, associated, scanVars>>

\* Pass2Step in which a service without ports is not skipped but takes the
\* first unclaimed spec.
Pass2StepPortless ==
    /\ Pass2More
    /\ LET e == enriched[idx]
           free == {n \in 1..Len(parsedSpecs) :
                       PathResolve(parsedSpecs[n].filePath) \notin usedSpecPaths}
           r == IF Len(e.ports) > 0
                THEN Pass2Scan(parsedSpecs, ContainerPorts(e), usedSpecPaths)
                ELSE IF free = {}
                     THEN [matched |-> <<>>, used |-> usedSpecPaths, threw |-> FALSE]
                     ELSE LET n == CHOOSE n \in free : \A m \in free : n <= m
                          IN  [matched |-> <<parsedSpecs[n]>>,
                               used |-> usedSpecPaths
                                          \cup {PathResolve(parsedSpecs[n].filePath)},
                               threw |-> FALSE]
       IN  IF e.openapi # <<>>
           THEN UNCHANGED <<enriched, usedSpecPaths>>
           ELSE /\ enriched' = [enriched EXCEPT ![idx].openapi = r.matched]
                /\ usedSpecPaths' = r.used
    /\ idx' = idx + 1
    /\ UNCHANGED <<callVars, fs, projectPath, services, parsedSpecs, pc, associated, scanVars>>

\* One iteration of the Pass 2 loop: the enriched service at idx.
Pass2Step ==
    /\ Pass2More
    /\ LET e == enriched[idx]
       IN  IF e.openapi # <<>> \/ Len(e.ports) = 0
           THEN /\ idx' = idx + 1
                /\ UNCHANGED <<pc, enriched, usedSpecPaths>>
           ELSE LET r == Pass2Scan(parsedSpecs, ContainerPorts(e), usedSpecPaths)
                IN  IF r.threw
                    THEN /\ pc' = "raised"
                         /\ UNCHANGED <<idx, enriched, usedSpecPaths>>
                    ELSE /\ enriched' = [enriched EXCEPT ![idx].openapi = r.matched]
                         /\ usedSpecPaths' = r.used
                         /\ idx' = idx + 1
                         /\ pc' = pc
    /\ UNCHANGED <<callVars, fs, projectPath, services, parsedSpecs, associated, scanVars>>

\* return enriched
AssociateReturn ==
    /\ Pass2Over
    /\ associated' = <<enriched>>
    /\ pc' = "returned"
    /\ UNCHANGED <<callVars, fs, projectPath, services, parsedSpecs, idx, usedSpecPaths, enriched,
                   scanVars>>

\* ------------------------------------------------------------------ scanProject

RECURSIVE PushNew(_, _)
\* for (const sp of serviceSpecs) if (!discoveredSpecs.includes(sp)) push(sp)
PushNew(found, more) ==
    IF more = <<>> THEN found
    ELSE IF \E k \in 1..Len(found) : found[k] = Head(more)
         THEN PushNew(found, Tail(more))
         ELSE PushNew(Append(found, Head(more)), Tail(more))

\* DiscoverAll without the loop over the services: global discovery only.
DiscoverAllGlobalOnly(files, project, found, rest) == found

RECURSIVE DiscoverAll(_, _, _, _)
\* Step 2 of scanProject from the list found so far: the loop over the services.
DiscoverAll(files, project, found, rest) ==
    IF rest = <<>> THEN found
    ELSE IF TruthyPath(Head(rest).build)
         THEN DiscoverAll(files, project,
                          PushNew(found,
                                  discoverOpenAPISpecs(files,
                                      PathResolve2(project, Head(rest).build[1]))),
                          Tail(rest))
         ELSE DiscoverAll(files, project, found, Tail(rest))

\* ScanCompose with a degraded mode: a Compose failure is recorded and the scan
\* goes on with no services.
ScanComposeDegraded ==
    /\ pc = "compose"
    /\ LET r == parseProjectCompose(fs, projectPath)
       IN  IF r.error # ""
           THEN /\ pc' = "discover"
                /\ scanError' = <<r.error>>
                /\ compose' = <<[filePath |-> projectPath, version |-> <<>>,
                                 services |-> <<>>]>>
           ELSE /\ pc' = "discover"
                /\ compose' = r.result
                /\ scanError' = scanError
    /\ UNCHANGED <<callVars, fs, projectPath, services, parsedSpecs, idx, assocVars,
                   discoveredSpecs, parseErrors, scanResult>>

\* Step 1: parseProjectCompose; its error rejects the scan.
ScanCompose ==
    /\ pc = "compose"
    /\ LET r == parseProjectCompose(fs, projectPath)
       IN  IF r.error # ""
           THEN /\ pc' = "failed"
                /\ scanError' = <<r.error>>
                /\ compose' = compose
           ELSE /\ pc' = "discover"
                /\ compose' = r.result
                /\ scanError' = scanError
    /\ UNCHANGED <<callVars, fs, projectPath, services, parsedSpecs, idx, assocVars,
                   discoveredSpecs, parseErrors, scanResult>>

\* Step 2: global discovery, then discovery under each service's build context.
ScanDiscover ==
    /\ pc = "discover"
    /\ discoveredSpecs' =
          DiscoverAll(fs, projectPath, discoverOpenAPISpecs(fs, projectPath),
                      compose[1].services)
    /\ pc' = "parse"
    /\ idx' = 1
    /\ UNCHANGED <<callVars, fs, projectPath, services, parsedSpecs, assocVars, compose,
                   parseErrors, scanError, scanResult>>

\* `for (const specPath of discoveredSpecs)`: has a next path, or is over.
ParseMore == pc = "parse" /\ idx <= Len(discoveredSpecs)

ParseOver == pc = "parse" /\ idx > Len(discoveredSpecs)

\* ScanParseStep without the try/catch: a parse failure rejects the scan.
ScanParseStepNoCatch ==
    /\ ParseMore
    /\ LET specPath == discoveredSpecs[idx]
           r == parseOpenAPISpec(fs, specPath)
       IN  IF r.error = ""
           THEN /\ parsedSpecs' = Append(parsedSpecs, r.result[1])
                /\ idx' = idx + 1
                /\ UNCHANGED <<pc, scanError>>
           ELSE /\ pc' = "failed"
                /\ scanError' = <<r.error>>
                /\ UNCHANGED <<parsedSpecs, idx>>
    /\ UNCHANGED <<callVars, fs, projectPath, services, assocVars, compose, discoveredSpecs,
                   parseErrors, scanResult>>

\* ScanParseStep that keeps a failed path among the parsed specs, as an
\* untitled spec without endpoints.
ScanParseStepKeepFailed ==
    /\ ParseMore
    /\ LET specPath == discoveredSpecs[idx]
           r == parseOpenAPISpec(fs, specPath)
       IN  IF r.error = ""
           THEN /\ parsedSpecs' = Append(parsedSpecs, r.result[1])
                /\ parseErrors' = parseErrors
           ELSE /\ parseErrors' = Append(parseErrors,
                                         [filePath |-> specPath, error |-> r.error])
                /\ parsedSpecs' = Append(parsedSpecs,
                                         [filePath |-> specPath, title |-> "Untitled API",
                                          version |-> "0.0.0", baseUrl |-> <<>>,
                                          endpoints |-> <<>>])
    /\ idx' = idx + 1
    /\ UNCHANGED <<callVars, fs, projectPath, services, pc, assocVars, compose, discoveredSpecs,
                   scanError, scanResult>>

\* Step 3, one iteration: parse the path at idx; a failure is collected.
ScanParseStep ==
    /\ ParseMore
    /\ LET specPath == discoveredSpecs[idx]
           r == parseOpenAPISpec(fs, specPath)
       IN  IF r.error = ""
           THEN /\ parsedSpecs' = Append(parsedSpecs, r.result[1])
                /\ parseErrors' = parseErrors
           ELSE /\ parseErrors' = Append(parseErrors,
                                         [filePath |-> specPath, error |-> r.error])
                /\ parsedSpecs' = parsedSpecs
    /\ idx' = idx + 1
    /\ UNCHANGED <<callVars, fs, projectPath, services, pc, assocVars, compose, discoveredSpecs,
                   scanError, scanResult>>

\* Step 4 begins: associateSpecsToServices(compose.services, parsedSpecs, projectPath).
ScanAssociate ==
    /\ ParseOver
    /\ services' = compose[1].services
    /\ pc' = "pass1"
    /\ idx' = 1
    /\ UNCHANGED <<callVars, fs, projectPath, parsedSpecs, assocVars, scanVars>>

\* return { projectPath, compose, discoveredSpecs, services }
ScanReturn ==
    /\ pc = "returned"
    /\ scanResult' = <<[projectPath |-> projectPath, compose |-> compose[1],
                        discoveredSpecs |-> discoveredSpecs,
                        services |-> associated[1]]>>
    /\ pc' = "scanned"
    /\ UNCHANGED <<callVars, fs, projectPath, services, parsedSpecs, idx, assocVars, compose,
                   discoveredSpecs, parseErrors, scanError>>

\* ------------------------------------------------------------------ inputs

\* All sequences over S of length at most n.
SeqsUpTo(S, n) == UNION {[1..k -> S] : k \in 0..n}

ProjectDir == <<"work", "project">>

PortMapping(h, c) == [host |-> h, container |-> c, protocol |-> <<>>]

DockerService(name, image, build, ports, dependsOn) ==
    [name |-> name, image |-> image, build |-> build, ports |-> ports,
     dependsOn |-> dependsOn]

OpenAPIResult(filePath, title, baseUrl) ==
    [filePath |-> filePath, title |-> title, version |-> "1.0.0",
     baseUrl |-> baseUrl, endpoints |-> <<>>]

HttpUrl(port) == <<Url("absolute", "http", <<port>>)>>

\* The services a caller passes to associate.
ServicePool ==
    { DockerService("api-a", <<>>, <<>>, <<PortMapping(9090, 8080)>>, <<>>),
      DockerService("api-b", <<>>, <<>>,
                    <<PortMapping(3000, 8080), PortMapping(9090, 9090)>>, <<>>),
      DockerService("user-api", <<>>, <<P(FALSE, <<".", "api">>)>>,
                    <<PortMapping(8080, 8080)>>, <<"postgres">>),
      DockerService("order-api", <<>>, <<P(TRUE, ProjectDir \o <<"api">>)>>, <<>>, <<>>),
      DockerService("ghost", <<>>, <<P(FALSE, <<"missing">>)>>,
                    <<PortMapping(9090, 9090)>>, <<>>),
      DockerService("worker", <<"node:22">>, <<>>, <<>>, <<>>) }

\* The parsed specs a caller passes to associate.
SpecPool ==
    { OpenAPIResult(P(TRUE, ProjectDir \o <<"api", "openapi.json">>), "User API",
                    HttpUrl(8080)),
      OpenAPIResult(P(TRUE, ProjectDir \o <<"api", "openapi.yml">>), "Order API",
                    HttpUrl(9090)),
      OpenAPIResult(P(FALSE, <<"project", "api", ".", "openapi.json">>), "Same file",
                    HttpUrl(8080)),
      OpenAPIResult(P(TRUE, ProjectDir \o <<"openapi.yml">>), "No base URL", <<>>),
      OpenAPIResult(P(TRUE, <<"work", "other", "spec.yml">>), "Bad base URL",
                    <<Url("relative", "", <<>>)>>) }

File(segs) == P(TRUE, ProjectDir \o segs)

\* The filesystems of the direct calls of associate (file contents are not read).
FsPool ==
    { [f \in {} |-> "x"],
      [f \in {File(<<"api", "openapi.json">>), File(<<"api", "openapi.yml">>),
              File(<<"openapi.yml">>)} |-> "x"],
      [f \in {File(<<"api", "openapi.yml">>), File(<<"api", "docs", "swagger.json">>)}
          |-> "x"] }

ProjectPaths == {P(TRUE, ProjectDir), P(FALSE, <<"project">>)}

\* ------------------------------------------------------------------ specification

\* A caller invokes associateSpecsToServices(services, parsedSpecs, projectPath).
Init ==
    /\ fs \in FsPool
    /\ projectPath \in ProjectPaths
    /\ services \in SeqsUpTo(ServicePool, MaxServices)
    /\ parsedSpecs \in SeqsUpTo(SpecPool, MaxSpecs)
    /\ pc = "pass1"
    /\ idx = 1
    /\ usedSpecPaths = {}
    /\ enriched = <<>>
    /\ associated = <<>>
    /\ compose = <<>>
    /\ discoveredSpecs = <<>>
    /\ parseErrors = <<>>
    /\ scanError = <<>>
    /\ scanResult = <<>>
    /\ call = NoCall
    /\ ret = <<>>

Next == Pass1Step \/ Pass1End \/ Pass2Step \/ AssociateReturn

Spec == Init /\ [][Next]_vars

\* ------------------------------------------------------------------ scanned projects

Chars8080 == <<"8", "0", "8", "0", ":", "8", "0", "8", "0">>

Chars9090 == <<"9", "0", "9", "0", ":", "9", "0", "9", "0">>

Chars3000 == <<"3", "0", "0", "0", ":", "3", "0", "0", "0">>

Text(content) == [syntax |-> "ok", doc |-> content]

Broken == [syntax |-> "bad", doc |-> YNull]

\* A service definition of a Compose document.
ServiceDef(build, ports, dependsOn) ==
    YMap(<< <<"build", YStr(build)>>,
            <<"ports", YSeq(ports)>>,
            <<"depends_on", YSeq(dependsOn)>> >>)

ImageDef(image, ports) ==
    YMap(<< <<"image", YStr(image)>>, <<"ports", YSeq(ports)>> >>)

\* The sample project's Compose document: two API services built from their
\* own directories, a frontend and a database.
SampleCompose ==
    Text(YMap(<< <<"services", YMap(<<
        <<"user-api", ServiceDef(P(FALSE, <<".", "user-api">>), <<YStr(Chars8080)>>,
                                 <<YStr("postgres")>>)>>,
        <<"order-api", ServiceDef(P(FALSE, <<".", "order-api">>), <<YStr(Chars9090)>>,
                                  <<YStr("postgres"), YStr("user-api")>>)>>,
        <<"frontend", ImageDef("node:22", <<YStr(Chars3000)>>)>>,
        <<"postgres", ImageDef("postgres:16", <<YNum(5432)>>)>> >>)>> >>))

\* One image service exposing 3000 and one service built from the project root.
RootCompose ==
    Text(YMap(<< <<"version", YStr("3")>>,
                 <<"services", YMap(<<
        <<"frontend", ImageDef("node:22", <<YStr(Chars3000)>>)>>,
        <<"app", YMap(<< <<"build", YMap(<< <<"context", YStr(P(FALSE, <<".">>))>> >>)>>,
                         <<"ports", YSeq(<<YStr(Chars8080), YStr(<<"x">>)>>)>> >>)>> >>)>> >>))

\* Compose documents the parser rejects.
NoServicesCompose == Text(YMap(<< <<"version", YStr("3")>>, <<"foo", YStr("bar")>> >>))

ScalarCompose == Text(YStr("services"))

NullServiceCompose == Text(YMap(<< <<"services", YMap(<< <<"api", YNull>> >>)>> >>))

\* An OpenAPI 3.x document.
OpenApi3(title, url) ==
    Text(YMap(<< <<"openapi", YStr("3.0.3")>>,
                 <<"info", YMap(<< <<"title", YStr(title)>>, <<"version", YStr("1.0.0")>> >>)>>,
                 <<"servers", YSeq(<<YMap(<< <<"url", YStr(url)>> >>)>>)>>,
                 <<"paths", YMap(<< <<"/items",
                      YMap(<< <<"get", YMap(<< <<"operationId", YStr("list")>> >>)>> >>)>> >>)>> >>))

\* A Swagger 2.x document whose host carries the written port.
Swagger2(title, port) ==
    Text(YMap(<< <<"swagger", YStr("2.0")>>,
                 <<"info", YMap(<< <<"title", YStr(title)>> >>)>>,
                 <<"host", YStr([port |-> <<port>>])>>,
                 <<"basePath", YStr("/v1")>> >>))

\* A mapping that is no API description.
NotASpec == Text(YMap(<< <<"name", YStr("package")>> >>))

UserApi == OpenApi3("User API", Url("absolute", "http", <<8080>>))

OrderApi == OpenApi3("Order API", Url("absolute", "http", <<9090>>))

\* A filesystem from a set of <<path segments under the project, content>> pairs.
Files(pairs) ==
    [f \in {File(pr[1]) : pr \in pairs} |->
        (CHOOSE pr \in pairs : File(pr[1]) = f)[2]]

SampleSpecs ==
    { <<<<"user-api", "openapi.yml">>, UserApi>>,
      <<<<"order-api", "openapi.json">>, OrderApi>> }

\* The project directories scanned.
ScanFsPool ==
    { Files(SampleSpecs \cup {<<<<"docker-compose.yml">>, SampleCompose>>}),
      Files({<<<<"docker-compose.yml">>, SampleCompose>>,
             <<<<"user-api", "openapi.yml">>, Broken>>,
             <<<<"order-api", "openapi.json">>, OrderApi>>}),
      Files({<<<<"compose.yml">>, SampleCompose>>,
             <<<<"user-api", "openapi.json">>, NotASpec>>,
             <<<<"user-api", "openapi.yml">>, UserApi>>,
             <<<<"user-api", "docs", "swagger.json">>, Swagger2("Docs API", 3000)>>,
             <<<<"openapi.yaml">>, Text(YSeq(<<>>))>>}),
      Files(SampleSpecs),
      Files(SampleSpecs \cup {<<<<"docker-compose.yml">>, Broken>>}),
      Files(SampleSpecs \cup {<<<<"docker-compose.yaml">>, NoServicesCompose>>,
                              <<<<"compose.yml">>, SampleCompose>>}),
      Files(SampleSpecs \cup {<<<<"compose.yaml">>, ScalarCompose>>}),
      Files(SampleSpecs \cup {<<<<"docker-compose.yml">>, NullServiceCompose>>}),
      Files({<<<<"docker-compose.yml">>, RootCompose>>,
             <<<<"openapi.json">>, Broken>>,
             <<<<"swagger.yml">>, Swagger2("Frontend API", 3000)>>,
             <<<<"api", "openapi.yml">>, OpenApi3("App API", Url("absolute", "https", <<>>))>>}),
      Files({<<<<"docker-compose.yml">>, RootCompose>>,
             <<<<"docs", "openapi.yml">>, NotASpec>>}) }

\* A caller invokes scanProject(projectPath).
ScanInit ==
    /\ fs \in ScanFsPool
    /\ projectPath \in ProjectPaths
    /\ services = <<>>
    /\ parsedSpecs = <<>>
    /\ pc = "compose"
    /\ idx = 1
    /\ usedSpecPaths = {}
    /\ enriched = <<>>
    /\ associated = <<>>
    /\ compose = <<>>
    /\ discoveredSpecs = <<>>
    /\ parseErrors = <<>>
    /\ scanError = <<>>
    /\ scanResult = <<>>
    /\ call = NoCall
    /\ ret = <<>>

ScanNext ==
    \/ ScanCompose \/ ScanDiscover \/ ScanParseStep \/ ScanAssociate
    \/ Pass1Step \/ Pass1End \/ Pass2Step \/ AssociateReturn
    \/ ScanReturn

ScanSpec == ScanInit /\ [][ScanNext]_vars

\* ------------------------------------------------------------------ direct calls

\* String(n) for a decimal digit.
DigitChar(d) == CHOOSE c \in Digits : DigitValue(c) = d

RECURSIVE NatChars(_)
NatChars(n) ==
    IF n < 10 THEN <<DigitChar(n)>> ELSE NatChars(n \div 10) \o <<DigitChar(n % 10)>>

\* String(n): the characters of the decimal numeral of an integer.
IntChars(n) == IF n < 0 THEN <<"-">> \o NatChars(0 - n) ELSE NatChars(n)

\* The port numbers written in the tokens.
PortNumbers == {0 - 1, 0, 80, 8080}

\* The protocol names written after the slash.
Protocols == {<<"t", "c", "p">>, <<"u", "d", "p">>}

\* The texts written as the first of three segments: an IPv4 address, the empty
\* text and a text that is no address.
IpTexts == {<<"1", "2", "7", ".", "0", ".", "0", ".", "1">>, <<>>, <<"x">>}

\* "h:c" and "ip:h:c"
Token2(h, c) == IntChars(h) \o <<":">> \o IntChars(c)

Token3(ip, h, c) == ip \o <<":">> \o Token2(h, c)

\* token/protocol
WithProtocol(token, p) == token \o <<"/">> \o p

\* The port parts made of one, two or three segments that are numerals.
PortParts ==
    {IntChars(n) : n \in PortNumbers}
      \cup {Token2(h, c) : h, c \in PortNumbers}
      \cup {Token3(ip, h, c) : ip \in IpTexts, h, c \in PortNumbers}

\* Tokens that are not of that form: text that is no numeral, a numeral followed
\* by other characters, an empty segment, four segments, an empty protocol.
OddTokens ==
    { <<"n", "o", "t", "-", "a", "-", "p", "o", "r", "t">>,
      <<>>,
      <<":">>,
      <<"8", "0", "a", "b", "c">>,
      <<"8", "0", ":", "x">>,
      <<"x", ":", "8", "0">>,
      <<"8", "0", "8", "0", ":", "8", "0", "t", "c", "p">>,
      <<"1", ":", "x", ":", "8", "0">>,
      <<"1", ":", "2", ":", "3", ":", "4">>,
      <<"1", ":", "2", ":", "3", ":", "4", "/", "t", "c", "p">>,
      <<"/", "t", "c", "p">>,
      <<"8", "0", ":", "8", "0", "/">>,
      <<" ", "8", "0", ":", "+", "8", "0">> }

\* The tokens of a ports list: numbers and strings.
PortTokens ==
    {YNum(n) : n \in PortNumbers}
      \cup {YStr(t) : t \in PortParts}
      \cup {YStr(WithProtocol(t, p)) : t \in PortParts, p \in Protocols}
      \cup {YStr(t) : t \in OddTokens}

\* A direct call fn(arg).
Call(fn, arg) == [fn |-> fn, arg |-> arg]

\* The project directories searched for a Compose file: every choice of the
\* conventional filenames, each holding the sample Compose document, beside a
\* file of another name.
ComposeDirs ==
    {Files({<<<<COMPOSE_FILENAMES[k]>>, SampleCompose>> : k \in present}
           \cup {<<<<"docker-compose.json">>, SampleCompose>>})
       : present \in SUBSET (1..Len(COMPOSE_FILENAMES))}

\* The path of the Compose file parsed directly.
ComposePath == File(<<"docker-compose.yml">>)

\* The Compose file contents parsed directly: documents the parser accepts and
\* documents whose root or whose services entry is not a mapping.
ComposeDocs ==
    { SampleCompose, RootCompose, NoServicesCompose, ScalarCompose, NullServiceCompose,
      Broken,
      Text(YNull),
      Text(YNum(3)),
      Text(YSeq(<<>>)),
      Text(YSeq(<<YMap(<< <<"services", YMap(<<>>)>> >>)>>)),
      Text(YMap(<<>>)),
      Text(YMap(<< <<"services", YNull>> >>)),
      Text(YMap(<< <<"services", YEmpty>> >>)),
      Text(YMap(<< <<"services", YStr("api")>> >>)),
      Text(YMap(<< <<"services", YNum(0)>> >>)),
      Text(YMap(<< <<"services", YNum(3)>> >>)),
      Text(YMap(<< <<"services", YMap(<<>>)>> >>)),
      Text(YMap(<< <<"services", YSeq(<<>>)>> >>)),
      Text(YMap(<< <<"services", YSeq(<<ImageDef("nginx", <<YNum(80)>>)>>)>> >>)),
      Text(YMap(<< <<"services", YSeq(<<YStr("api"), YStr("db")>>)>> >>)) }

\* The service names written in depends_on.
DependsNames == {"postgres", "redis", "1", "2"}

\* The sequences of at most MaxDepends distinct names.
DependsLists ==
    {names \in SeqsUpTo(DependsNames, MaxDepends) :
        \A i, j \in 1..Len(names) : names[i] = names[j] => i = j}

\* depends_on in its short form: the sequence of the names.
ShortForm(names) == YSeq([k \in 1..Len(names) |-> YStr(names[k])])

\* depends_on in its long form: a mapping from each name, in order, to its
\* condition.
LongForm(names) ==
    YMap([k \in 1..Len(names) |->
            <<names[k], YMap(<< <<"condition", YStr("service_healthy")>> >>)>>])

\* depends_on values of any other shape.
OtherShapes == {YNull, YEmpty, YStr("postgres"), YNum(0), YNum(1)}

\* A Compose document with the one service api.
ApiCompose(def) == Text(YMap(<< <<"services", YMap(<< <<"api", def>> >>)>> >>))

\* The service api with the given depends_on.
DependsCompose(dependsOn) ==
    ApiCompose(YMap(<< <<"image", YStr("node:22")>>, <<"depends_on", dependsOn>> >>))

\* The service api without depends_on.
NoDependsCompose == ApiCompose(YMap(<< <<"image", YStr("node:22")>> >>))

DependsDocs ==
    {DependsCompose(ShortForm(names)) : names \in DependsLists}
      \cup {DependsCompose(LongForm(names)) : names \in DependsLists}
      \cup {DependsCompose(other) : other \in OtherShapes}
      \cup {NoDependsCompose}

\* The names services are written under.
ServiceNames == {"web", "db", "1", "2"}

\* The ports lists written: parseable entries only, an unparseable entry
\* between two parseable ones, unparseable entries only.
PortLists ==
    { <<YStr(Chars8080), YNum(5432)>>,
      <<YStr(Chars3000), YStr(<<"w", "e", "b">>), YStr(Chars9090)>>,
      <<YStr(<<"w", "e", "b">>), YStr(<<":">>)>> }

\* The Compose documents whose services mapping writes up to MaxServices
\* distinct names in any order, each service with the same ports list.
OrderDocs ==
    {Text(YMap(<< <<"services",
        YMap([k \in 1..Len(names) |-> <<names[k], ImageDef("nginx", ports)>>])>> >>)) :
        names \in {ns \in SeqsUpTo(ServiceNames, MaxServices) :
                     Len(ns) > 0 /\ \A i, j \in 1..Len(ns) : i # j => ns[i] # ns[j]},
        ports \in PortLists}

\* The directories searched for spec files: empty, holding a file that is no
\* candidate, holding every candidate, and holding any one or two of them
\* beside a file that is no candidate.
SpecDirs ==
    { Files({}),
      Files({<<<<"docs", "readme.md">>, NotASpec>>}),
      Files({<<<<"docs", "swagger.json">>, NotASpec>>}),
      Files({<<SPEC_SEARCH_PATHS[k], NotASpec>> : k \in 1..Len(SPEC_SEARCH_PATHS)}) }
      \cup {Files({<<SPEC_SEARCH_PATHS[i], NotASpec>>, <<SPEC_SEARCH_PATHS[j], NotASpec>>,
                   <<<<"api", "openapi.txt">>, NotASpec>>}) :
               i, j \in 1..Len(SPEC_SEARCH_PATHS)}

\* The path of the spec file parsed directly.
SpecPath == File(<<"openapi.yml">>)

\* Spec file contents the parser rejects: unparseable text, the empty
\* document, scalars, sequences, and mappings without an openapi or swagger
\* field.
RejectedSpecs ==
    { Broken, Text(YNull), Text(YNum(3)), Text(YStr("openapi")), Text(YEmpty),
      Text(YSeq(<<>>)),
      Text(YSeq(<<YMap(<< <<"openapi", YStr("3.0.3")>> >>)>>)),
      NotASpec,
      Text(YMap(<<>>)),
      Text(YMap(<< <<"info", YMap(<< <<"title", YStr("User API")>> >>)>>,
                   <<"paths", YMap(<<>>)>> >>)) }

\* A spec document: the version field (openapi or swagger), an info block and
\* the other top-level fields.
ApiDoc(field, fields) ==
    Text(YMap(<< <<field, YStr("3.0.3")>>,
                 <<"info", YMap(<< <<"title", YStr("User API")>> >>)>> >> \o fields))

\* servers: one entry with the URL http://localhost:8080
OneServer == <<"servers", YSeq(<<YMap(<< <<"url", YStr(HttpUrl(8080)[1])>> >>)>>)>>

\* host: localhost:7070
Host7070 == <<"host", YStr([port |-> <<7070>>])>>

\* Accepted documents with every way of stating, or not stating, a base URL.
BaseUrlSpecs ==
    {ApiDoc(field, fields) :
        field \in {"openapi", "swagger"},
        fields \in
          { <<>>,
            <<OneServer>>,
            << <<"servers", YSeq(<<>>)>> >>,
            <<OneServer, Host7070>>,
            <<Host7070>>,
            <<Host7070, <<"basePath", YStr("/v1")>> >>,
            <<Host7070, <<"basePath", YStr("/v1")>>,
              <<"schemes", YSeq(<<YStr("https"), YStr("http")>>)>> >>,
            <<Host7070, <<"schemes", YSeq(<<>>)>> >>,
            << <<"basePath", YStr("/v1")>>, <<"schemes", YSeq(<<YStr("https")>>)>> >> }}

\* A reference object {$ref: text}: the text is what stands before the '#',
\* the pool named after '#/' and the schema name.
Ref(before, pool, name) ==
    YMap(<< <<"$ref", YStr([before |-> before, pool |-> pool, name |-> name])>> >>)

\* The Item definition: an object schema with properties.
ItemSchema ==
    YMap(<< <<"type", YStr("object")>>,
            <<"properties", YMap(<< <<"id", YMap(<< <<"type", YStr("integer")>> >>)>> >>)>> >>)

\* The pooled schemas: a definition, a reference to it and a reference to itself.
SchemaPool ==
    YMap(<< <<"Item", ItemSchema>>,
            <<"Alias", Ref("", "components/schemas", "Item")>>,
            <<"Loop", Ref("", "definitions", "Loop")>> >>)

\* type: array, items: {$ref: "#/definitions/Item"}
ArrayOfItems ==
    YMap(<< <<"type", YStr("array")>>, <<"items", Ref("", "definitions", "Item")>> >>)

\* The schemas written on a response.
ResponseSchemas ==
    {Ref(before, pool, name) :
        before \in {"", "other.yaml"},
        pool \in {"components/schemas", "definitions", "parameters"},
        name \in {"Item", "Alias", "Loop", "Missing"}}
    \cup {ArrayOfItems, ItemSchema}

\* paths: /items: get: responses: "200": with the schema where each version
\* of the format puts it.
ItemsPath(field, schema) ==
    LET response ==
            IF field = "openapi"
            THEN YMap(<< <<"description", YStr("Success")>>,
                         <<"content", YMap(<< <<"application/json",
                               YMap(<< <<"schema", schema>> >>)>> >>)>> >>)
            ELSE YMap(<< <<"description", YStr("Success")>>, <<"schema", schema>> >>)
    IN  <<"paths", YMap(<< <<"/items", YMap(<< <<"get",
            YMap(<< <<"summary", YStr("List items")>>,
                    <<"responses", YMap(<< <<"200", response>> >>)>> >>)>> >>)>> >>)>>

\* Documents with one response schema and the pool of their version.
RefSpecs ==
    {ApiDoc(field, <<ItemsPath(field, schema),
                     IF field = "openapi"
                     THEN <<"components", YMap(<< <<"schemas", SchemaPool>> >>)>>
                     ELSE <<"definitions", SchemaPool>> >>) :
        field \in {"openapi", "swagger"}, schema \in ResponseSchemas}

\* An operation object with one response.
Operation ==
    YMap(<< <<"operationId", YStr("listUsers")>>,
            <<"responses", YMap(<< <<"200",
                  YMap(<< <<"description", YStr("Success")>> >>)>> >>)>> >>)

\* The entries written under one path: verbs in and out of the code's order,
\* all seven verbs, keys that are no verb, a verb with no value, no entry.
PathItems ==
    { YMap(<< <<"get", Operation>>, <<"post", Operation>> >>),
      YMap(<< <<"patch", Operation>>, <<"delete", Operation>> >>),
      YMap(<< <<"get", Operation>>, <<"post", Operation>>, <<"put", Operation>>,
              <<"delete", Operation>>, <<"patch", Operation>>,
              <<"options", Operation>>, <<"head", Operation>> >>),
      YMap(<< <<"summary", YStr("Users")>>, <<"parameters", YSeq(<<>>)>>,
              <<"head", Operation>>, <<"trace", Operation>> >>),
      YMap(<< <<"GET", Operation>> >>),
      YMap(<< <<"get", YNull>>, <<"put", Operation>> >>),
      YMap(<<>>),
      YNull }

\* Documents with no paths, an empty paths mapping, one path and two paths,
\* the second with a placeholder.
PathsSpecs ==
    {ApiDoc("openapi", <<>>), ApiDoc("openapi", << <<"paths", YNull>> >>),
     ApiDoc("openapi", << <<"paths", YMap(<<>>)>> >>)}
    \cup {ApiDoc("openapi", << <<"paths", YMap(<< <<"/users", item>> >>)>> >>) :
            item \in PathItems}
    \cup {ApiDoc("openapi", << <<"paths", YMap(<< <<"/users", first>>,
                                                  <<"/users/{id}", second>> >>)>> >>) :
            first \in PathItems, second \in PathItems}

\* The spec file contents parsed directly.
SpecDocs == RejectedSpecs \cup BaseUrlSpecs \cup RefSpecs \cup PathsSpecs

\* The baseUrl strings whose port is extracted: every scheme with no port, its
\* own and another scheme's default port, a free port, zero and a port
\* beyond 16 bits; the empty string and a string without a scheme.
BaseUrls ==
    {Url("absolute", scheme, port) :
        scheme \in {"http", "https", "ws", "ftp", "redis"},
        port \in {<<>>, <<0>>, <<21>>, <<80>>, <<443>>, <<8080>>, <<70000>>}}
    \cup {Url("empty", "", <<>>), Url("relative", "", <<>>)}

\* The direct calls made, each with the filesystem it runs on.
Calls ==
    {<<Call("parsePort", t), Files({})>> : t \in PortTokens}
      \cup {<<Call("parseDockerCompose", ComposePath),
               Files({<<<<"docker-compose.yml">>, doc>>})>> :
                    doc \in ComposeDocs \cup DependsDocs \cup OrderDocs}
      \cup {<<Call("parseDockerCompose", ComposePath), Files({})>>}
      \cup {<<Call("parseOpenAPISpec", SpecPath), Files({<<<<"openapi.yml">>, doc>>})>> :
               doc \in SpecDocs}
      \cup {<<Call("parseOpenAPISpec", SpecPath), Files({})>>}
      \cup {<<Call("extractPortFromUrl", url), Files({})>> : url \in BaseUrls}
      \cup {<<Call("discoverOpenAPISpecs", p), files>> :
               p \in ProjectPaths, files \in SpecDirs}
      \cup {<<Call(fn, p), files>> :
               fn \in {"findComposeFile", "parseProjectCompose"},
               p \in ProjectPaths, files \in ComposeDirs}

\* parsePort(port) is called and returns.
CallParsePort ==
    /\ pc = "call"
    /\ call.fn = "parsePort"
    /\ ret' = <<parsePort(call.arg)>>
    /\ pc' = "done"
    /\ UNCHANGED <<call, fs, projectPath, services, parsedSpecs, idx, assocVars, scanVars>>

\* findComposeFile(projectPath) is called and returns.
CallFindComposeFile ==
    /\ pc = "call"
    /\ call.fn = "findComposeFile"
    /\ ret' = <<findComposeFile(fs, call.arg)>>
    /\ pc' = "done"
    /\ UNCHANGED <<call, fs, projectPath, services, parsedSpecs, idx, assocVars, scanVars>>

\* parseProjectCompose(projectPath) is called and returns or raises.
CallParseProjectCompose ==
    /\ pc = "call"
    /\ call.fn = "parseProjectCompose"
    /\ ret' = <<parseProjectCompose(fs, call.arg)>>
    /\ pc' = "done"
    /\ UNCHANGED <<call, fs, projectPath, services, parsedSpecs, idx, assocVars, scanVars>>

\* parseDockerCompose(filePath) is called and returns or raises.
CallParseDockerCompose ==
    /\ pc = "call"
    /\ call.fn = "parseDockerCompose"
    /\ ret' = <<parseDockerCompose(fs, call.arg)>>
    /\ pc' = "done"
    /\ UNCHANGED <<call, fs, projectPath, services, parsedSpecs, idx, assocVars, scanVars>>

\* discoverOpenAPISpecs(projectPath) is called and returns.
CallDiscoverOpenAPISpecs ==
    /\ pc = "call"
    /\ call.fn = "discoverOpenAPISpecs"
    /\ ret' = <<discoverOpenAPISpecs(fs, call.arg)>>
    /\ pc' = "done"
    /\ UNCHANGED <<call, fs, projectPath, services, parsedSpecs, idx, assocVars, scanVars>>

\* parseOpenAPISpec(filePath) is called and returns or raises.
CallParseOpenAPISpec ==
    /\ pc = "call"
    /\ call.fn = "parseOpenAPISpec"
    /\ ret' = <<parseOpenAPISpec(fs, call.arg)>>
    /\ pc' = "done"
    /\ UNCHANGED <<call, fs, projectPath, services, parsedSpecs, idx, assocVars, scanVars>>

\* extractPortFromUrl(spec.baseUrl) is called, as Pass 2 calls it, and returns.
CallExtractPortFromUrl ==
    /\ pc = "call"
    /\ call.fn = "extractPortFromUrl"
    /\ ret' = <<extractPortFromUrl(call.arg)>>
    /\ pc' = "done"
    /\ UNCHANGED <<call, fs, projectPath, services, parsedSpecs, idx, assocVars, scanVars>>

\* A caller invokes one parser function directly.
ParserInit ==
    /\ \E c \in Calls : call = c[1] /\ fs = c[2]
    /\ ret = <<>>
    /\ pc = "call"
    /\ projectPath = P(TRUE, ProjectDir)
    /\ services = <<>>
    /\ parsedSpecs = <<>>
    /\ idx = 1
    /\ usedSpecPaths = {}
    /\ enriched = <<>>
    /\ associated = <<>>
    /\ compose = <<>>
    /\ discoveredSpecs = <<>>
    /\ parseErrors = <<>>
    /\ scanError = <<>>
    /\ scanResult = <<>>

ParserNext ==
    \/ CallParsePort \/ CallFindComposeFile \/ CallParseProjectCompose
    \/ CallParseDockerCompose \/ CallDiscoverOpenAPISpecs \/ CallParseOpenAPISpec
    \/ CallExtractPortFromUrl

ParserSpec == ParserInit /\ [][ParserNext]_vars

\* ------------------------------------------------------------------ claims

Attached(list) == {k \in 1..Len(list) : list[k].openapi # <<>>}

AttachedPath(list, k) == PathResolve(list[k].openapi[1].filePath)

NoSpecReuse(list) ==
    \A i, j \in Attached(list) : i # j => AttachedPath(list, i) # AttachedPath(list, j)

HasContainerPort(service, port) ==
    \E k \in 1..Len(service.ports) : service.ports[k].container = port

HasHostPort(service, port) ==
    \E k \in 1..Len(service.ports) : service.ports[k].host = port

\* C1: at every step of both passes and in the returned list, no two distinct
\* services carry a spec with the same resolved absolute file path.
C1_NoSpecUsedTwice ==
    /\ NoSpecReuse(enriched)
    /\ associated # <<>> => NoSpecReuse(associated[1])

\* C1 witness: associate has returned; a service with a build context holds a
\* co-located spec, and another service exposing that spec's port is left without.
C1_Witness ==
    /\ pc = "returned"
    /\ \E i, j \in 1..Len(associated[1]) :
          LET a == associated[1][i]
              b == associated[1][j]
          IN  /\ i # j
              /\ TruthyPath(a.build)
              /\ a.openapi # <<>>
              /\ TruthyUrl(a.openapi[1].baseUrl)
              /\ b.openapi = <<>>
              /\ a.openapi[1].baseUrl[1].port # <<>>
              /\ HasContainerPort(b, a.openapi[1].baseUrl[1].port[1])

\* C2: associate returns one EnrichedService per input service, in input order,
\* with the input's name, image, build, ports and dependsOn, carrying zero or one
\* of the given specs; with no specs given every returned service is unattached.
C2_OnePerServiceFieldsKept ==
    pc = "returned" =>
        /\ associated # <<>>
        /\ Len(associated[1]) = Len(services)
        /\ \A k \in 1..Len(services) :
              LET e == associated[1][k]
                  s == services[k]
              IN  /\ e.name = s.name
                  /\ e.image = s.image
                  /\ e.build = s.build
                  /\ e.ports = s.ports
                  /\ e.dependsOn = s.dependsOn
                  /\ Len(e.openapi) <= 1
                  /\ e.openapi # <<>> =>
                        \E n \in 1..Len(parsedSpecs) : e.openapi[1] = parsedSpecs[n]
                  /\ parsedSpecs = <<>> => e.openapi = <<>>

\* C2 witness: a returned list of two services, one attached and one not, with
\* an image and a dependency list among the copied fields.
C2_Witness ==
    /\ pc = "returned"
    /\ Len(associated[1]) = 2
    /\ \E i, j \in 1..2 :
          /\ associated[1][i].openapi # <<>>
          /\ associated[1][i].dependsOn # <<>>
          /\ associated[1][j].openapi = <<>>
          /\ associated[1][j].image # <<>>

\* C3: N >= 1 services without build contexts that all expose container port P,
\* and exactly one spec, whose baseUrl resolves to P: the first service gets the
\* spec, every other service stays unattached.
C3_SinglePortSpecGoesToFirst ==
    (/\ pc = "returned"
     /\ Len(services) >= 1
     /\ Len(parsedSpecs) = 1
     /\ TruthyUrl(parsedSpecs[1].baseUrl)
     /\ extractPortFromUrl(parsedSpecs[1].baseUrl[1]).port # <<>>
     /\ \A k \in 1..Len(services) :
           /\ services[k].build = <<>>
           /\ HasContainerPort(services[k],
                               extractPortFromUrl(parsedSpecs[1].baseUrl[1]).port[1]))
    => /\ associated[1][1].openapi = <<parsedSpecs[1]>>
       /\ \A k \in 2..Len(services) : associated[1][k].openapi = <<>>

\* C3 witness: two such services and one such spec, after the return.
C3_Witness ==
    /\ pc = "returned"
    /\ Len(services) = 2
    /\ Len(parsedSpecs) = 1
    /\ services[1].build = <<>> /\ services[2].build = <<>>
    /\ services[1].name # services[2].name
    /\ HasContainerPort(services[1], 8080) /\ HasContainerPort(services[2], 8080)
    /\ parsedSpecs[1].baseUrl = HttpUrl(8080)
    /\ associated[1][2].openapi = <<>>

\* C4: greedy, first-match-wins: an attachment once made is never changed or
\* removed by a later step, and a later step never attaches a spec whose resolved
\* path an already attached service holds.
C4_GreedyFirstMatchWins ==
    [][\A i \in Attached(enriched) :
          /\ i <= Len(enriched')
          /\ enriched'[i].openapi = enriched[i].openapi
          /\ \A j \in Attached(enriched') \ Attached(enriched) :
                AttachedPath(enriched', j) # AttachedPath(enriched, i)]_vars

\* C4 witness: the returned list leaves a later service with ports unattached
\* although exchanging the earlier service's spec for an unclaimed one that also
\* matches it would have attached both.
C4_Witness ==
    /\ pc = "returned"
    /\ \E i, j \in 1..Len(enriched), n \in 1..Len(parsedSpecs) :
          /\ i < j
          /\ enriched[i].openapi # <<>>
          /\ enriched[j].openapi = <<>>
          /\ enriched[i].build = <<>> /\ enriched[j].build = <<>>
          /\ PathResolve(parsedSpecs[n].filePath) \notin usedSpecPaths
          /\ TruthyUrl(parsedSpecs[n].baseUrl)
          /\ parsedSpecs[n].baseUrl[1].port # <<>>
          /\ HasContainerPort(enriched[i], parsedSpecs[n].baseUrl[1].port[1])
          /\ enriched[i].openapi[1].baseUrl[1].port # <<>>
          /\ HasContainerPort(enriched[j], enriched[i].openapi[1].baseUrl[1].port[1])

\* The candidates of build context `build` usable at a Pass 1 step: positions in
\* scoped-discovery order whose resolved path is that of a parsed spec and is
\* not claimed.
UsableCandidates(build) ==
    LET cands == discoverServiceSpecs(fs, projectPath, build)
    IN  {k \in 1..Len(cands) :
            /\ \E n \in 1..Len(parsedSpecs) :
                  PathResolve(parsedSpecs[n].filePath) = PathResolve(cands[k])
            /\ PathResolve(cands[k]) \notin usedSpecPaths}

\* C5: each Pass 1 step gives a service with a build context the first usable
\* candidate in scoped-discovery order and claims exactly that path; a service
\* with no usable candidate, or no build context, leaves the step unattached and
\* claims nothing.
C5_Pass1FirstUsableCandidate ==
    [][(pc = "pass1" /\ idx <= Len(services)) =>
          LET build == services[idx].build
              cands == discoverServiceSpecs(fs, projectPath, build)
              usable == IF TruthyPath(build) THEN UsableCandidates(build) ELSE {}
          IN  /\ Len(enriched') = idx
              /\ IF usable = {}
                 THEN /\ enriched'[idx].openapi = <<>>
                      /\ usedSpecPaths' = usedSpecPaths
                 ELSE LET first == CHOOSE k \in usable : \A m \in usable : k <= m
                      IN  /\ enriched'[idx].openapi # <<>>
                          /\ AttachedPath(enriched', idx) = PathResolve(cands[first])
                          /\ usedSpecPaths' =
                                usedSpecPaths \cup {PathResolve(cands[first])}]_vars

\* C5 witness: Pass 1 is over and a service holds a co-located spec that is not
\* the first discovered candidate of its build context (the first was skipped).
C5_Witness ==
    /\ pc = "pass2" /\ idx = 1
    /\ \E k \in Attached(enriched) :
          LET cands == discoverServiceSpecs(fs, projectPath, enriched[k].build)
          IN  /\ Len(cands) >= 2
              /\ AttachedPath(enriched, k) # PathResolve(cands[1])
              /\ AttachedPath(enriched, k) = PathResolve(cands[2])

\* The specs a Pass 2 step can give to service e: positions in the specs' input
\* order that are unclaimed and whose baseUrl port is a container port of e.
PortMatches(e) ==
    {n \in 1..Len(parsedSpecs) :
        /\ PathResolve(parsedSpecs[n].filePath) \notin usedSpecPaths
        /\ TruthyUrl(parsedSpecs[n].baseUrl)
        /\ LET port == extractPortFromUrl(parsedSpecs[n].baseUrl[1]).port
           IN  port # <<>> /\ \E k \in 1..Len(e.ports) : e.ports[k].container = port[1]}

\* C6: each Pass 2 step gives a service that is unattached and has a port the
\* first unclaimed spec, in input order, whose baseUrl port is one of its
\* container ports; without such a spec the service stays unattached.
C6_Pass2FirstPortMatch ==
    [][(/\ pc = "pass2" /\ idx <= Len(enriched)
        /\ enriched[idx].openapi = <<>> /\ Len(enriched[idx].ports) > 0) =>
          LET matches == PortMatches(enriched[idx])
          IN  IF matches = {}
              THEN enriched'[idx].openapi = <<>>
              ELSE enriched'[idx].openapi =
                      <<parsedSpecs[CHOOSE n \in matches : \A m \in matches : n <= m]>>]_vars

\* C6 witness: after the return a service is unattached while an unclaimed spec
\* has the port of one of its host ports, which is not one of its container ports.
C6_Witness ==
    /\ pc = "returned"
    /\ \E k \in 1..Len(enriched), n \in 1..Len(parsedSpecs) :
          /\ enriched[k].openapi = <<>>
          /\ PathResolve(parsedSpecs[n].filePath) \notin usedSpecPaths
          /\ TruthyUrl(parsedSpecs[n].baseUrl)
          /\ parsedSpecs[n].baseUrl[1].port # <<>>
          /\ HasHostPort(enriched[k], parsedSpecs[n].baseUrl[1].port[1])
          /\ ~HasContainerPort(enriched[k], parsedSpecs[n].baseUrl[1].port[1])

\* C7: a service with no build context and no ports is unattached in the
\* returned list, whatever the specs, and the call returns instead of raising.
C7_NoBuildNoPortsUnattached ==
    /\ pc # "raised"
    /\ pc = "returned" =>
          \A k \in 1..Len(services) :
             (services[k].build = <<>> /\ services[k].ports = <<>>)
                => associated[1][k].openapi = <<>>

\* C7 witness: the call returned for such a service together with a service
\* that did get a spec by port.
C7_Witness ==
    /\ pc = "returned"
    /\ parsedSpecs # <<>>
    /\ \E k, m \in 1..Len(services) :
          /\ services[k].build = <<>> /\ services[k].ports = <<>>
          /\ associated[1][k].openapi = <<>>
          /\ associated[1][m].openapi # <<>>

\* The number of steps the running call still has to take before it has returned.
StepsLeft ==
    CASE pc = "pass1" -> 2 * Len(services) + 3 - idx
      [] pc = "pass2" -> Len(enriched) + 2 - idx
      [] OTHER -> 0

\* C8: every call of associate terminates with a returned list and never raises:
\* no state has raised, in every state before the return one of the loops has a
\* next iteration or an exit to take, and every step lowers the number of steps
\* left, which is never negative.
C8_AssociateAlwaysReturns ==
    /\ [](/\ pc # "raised"
          /\ StepsLeft >= 0
          /\ pc # "returned" => (Pass1More \/ Pass1Over \/ Pass2More \/ Pass2Over)
          /\ pc = "returned" => associated = <<enriched>>)
    /\ [][StepsLeft' < StepsLeft]_vars

\* C8 witness: the call returned although a spec has no baseUrl, another has a
\* baseUrl that is not a URL, and a service's build context is not on disk.
C8_Witness ==
    /\ pc = "returned"
    /\ \E n, m \in 1..Len(parsedSpecs) :
          /\ parsedSpecs[n].baseUrl = <<>>
          /\ parsedSpecs[m].baseUrl # <<>> /\ NewURL(parsedSpecs[m].baseUrl[1]).threw
    /\ \E k \in 1..Len(services) :
          /\ TruthyPath(services[k].build)
          /\ ~ExistsSync(fs, PathResolve2(projectPath, services[k].build[1]))
          /\ Len(services[k].ports) > 0

\* Whether parseProjectCompose fails on the scanned project.
ComposeFails == parseProjectCompose(fs, projectPath).error # ""

\* C9: when the Compose step of a scan fails, the scan fails with that error and
\* nothing else: no discovery, no spec parsing, no association and no result,
\* and no step follows the failure.
C9_ComposeFailureIsFatal ==
    /\ [](pc = "failed" =>
            /\ scanError = <<parseProjectCompose(fs, projectPath).error>>
            /\ compose = <<>> /\ discoveredSpecs = <<>> /\ parsedSpecs = <<>>
            /\ parseErrors = <<>> /\ services = <<>> /\ enriched = <<>>
            /\ associated = <<>> /\ scanResult = <<>>)
    /\ [][/\ pc # "failed"
          /\ (pc = "compose" /\ ComposeFails) => pc' = "failed"]_vars

\* C9 witness: a scan failed on a Compose document without a services mapping
\* in a project where discovery would have found spec files.
C9_Witness ==
    /\ pc = "failed"
    /\ scanError = <<"SchemaViolation">>
    /\ discoverOpenAPISpecs(fs, PathResolve2(projectPath, P(FALSE, <<"user-api">>))) # <<>>

\* Whether parsing the spec file at path p succeeds.
ParsesOk(p) == parseOpenAPISpec(fs, p).error = ""

ParseFails(p) == ~ParsesOk(p)

\* The order of the positions in a running scan.
PcRank ==
    CASE pc = "compose" -> 7 [] pc = "discover" -> 6 [] pc = "parse" -> 5
      [] pc = "pass1" -> 4 [] pc = "pass2" -> 3 [] pc = "returned" -> 2
      [] OTHER -> 0

\* C10: a spec file that fails to parse does not fail the scan: the scan fails
\* only in its Compose step; every discovered path is parsed, the failures are
\* set aside, and association runs with exactly the specs that parsed, in
\* discovery order; the scan goes on step by step to a ScanResult.
C10_SpecFailuresAreIsolated ==
    /\ [](/\ pc = "failed" => (compose = <<>> /\ parseErrors = <<>>)
          /\ pc \in {"pass1", "pass2", "returned", "scanned"} =>
                /\ [k \in 1..Len(parsedSpecs) |-> parsedSpecs[k].filePath]
                      = SelectSeq(discoveredSpecs, ParsesOk)
                /\ [k \in 1..Len(parseErrors) |-> parseErrors[k].filePath]
                      = SelectSeq(discoveredSpecs, ParseFails)
                /\ \A k \in 1..Len(parsedSpecs) :
                      <<parsedSpecs[k]>> = parseOpenAPISpec(fs, parsedSpecs[k].filePath).result
          /\ pc = "parse" => idx <= Len(discoveredSpecs) + 1
          /\ pc = "scanned" =>
                /\ scanResult # <<>>
                /\ scanResult[1].services = associated[1]
                /\ scanResult[1].discoveredSpecs = discoveredSpecs
                /\ Len(scanResult[1].services) = Len(compose[1].services))
    /\ [][(pc' = pc /\ idx' = idx + 1) \/ (PcRank' < PcRank /\ pc' # "failed")
          \/ pc = "compose"]_vars

\* C10 witness: a finished scan in which one discovered spec failed to parse,
\* another parsed, and a service received its spec.
C10_Witness ==
    /\ pc = "scanned"
    /\ parseErrors # <<>>
    /\ parsedSpecs # <<>>
    /\ \E k \in 1..Len(scanResult[1].services) : scanResult[1].services[k].openapi # <<>>

\* The file a listed path names.
ResolveAll(paths) == [k \in 1..Len(paths) |-> PathResolve(paths[k])]

RECURSIVE FirstSeen(_, _)
\* The entries of seq in order, each kept at its first occurrence only.
FirstSeen(seq, acc) ==
    IF seq = <<>> THEN acc
    ELSE IF \E k \in 1..Len(acc) : acc[k] = Head(seq)
         THEN FirstSeen(Tail(seq), acc)
         ELSE FirstSeen(Tail(seq), Append(acc, Head(seq)))

\* What every discovery pass of the scan finds, in pass order: the global pass,
\* then the pass under the build context of each service in Compose order.
AllPasses(list) ==
    discoverOpenAPISpecs(fs, projectPath)
      \o Flatten([k \in 1..Len(list) |->
                    IF TruthyPath(list[k].build)
                    THEN discoverOpenAPISpecs(fs, PathResolve2(projectPath, list[k].build[1]))
                    ELSE <<>>])

\* C11: the discoveredSpecs of a ScanResult lists each file at most once, also
\* when the global pass and the pass under a build context both find it, in
\* first-seen order: the global results, then per service in Compose order the
\* paths under its build context that are not listed yet.
C11_EachFileListedOnce ==
    pc = "scanned" =>
        LET listed == ResolveAll(scanResult[1].discoveredSpecs)
        IN  /\ \A i, j \in 1..Len(listed) : listed[i] = listed[j] => i = j
            /\ listed = FirstSeen(ResolveAll(AllPasses(scanResult[1].compose.services)), <<>>)

\* What the scan would list with scoped discovery (discoverServiceSpecs) as the
\* pass under each service's build context.
ScopedPasses(list) ==
    discoverOpenAPISpecs(fs, projectPath)
      \o Flatten([k \in 1..Len(list) |->
                    discoverServiceSpecs(fs, projectPath, list[k].build)])

\* C12: for each service with a build context, what the scan discovers under
\* that context is what scoped discovery returns for it (the candidates Pass 1
\* examines for that service): the scan's list is the global results followed
\* by the not yet listed results of scoped discovery, service by service.
C12_ScanUsesScopedDiscovery ==
    pc = "scanned" =>
        scanResult[1].discoveredSpecs
            = FirstSeen(ScopedPasses(scanResult[1].compose.services), <<>>)

\* The sample project: the Compose file declaring user-api, order-api, frontend
\* and postgres, openapi.yml in user-api's build context and openapi.json in
\* order-api's.
SampleProject == Files(SampleSpecs \cup {<<<<"docker-compose.yml">>, SampleCompose>>})

\* The service called name in a service list (the first one).
Named(list, name) ==
    list[CHOOSE k \in 1..Len(list) :
            list[k].name = name /\ \A j \in 1..(k - 1) : list[j].name # name]

\* C13: scanning the sample project yields a ScanResult with exactly the four
\* services; user-api carries the User API spec (baseUrl http://localhost:8080),
\* order-api the Order API spec (baseUrl http://localhost:9090), frontend and
\* postgres carry none.
C13_SampleProjectScan ==
    /\ fs = SampleProject => pc # "failed"
    /\ (fs = SampleProject /\ pc = "scanned") =>
          LET result == scanResult[1].services
          IN  /\ Len(result) = 4
              /\ [k \in 1..4 |-> result[k].name]
                    = <<"user-api", "order-api", "frontend", "postgres">>
              /\ Named(result, "user-api").openapi # <<>>
              /\ Named(result, "user-api").openapi[1].title = "User API"
              /\ Named(result, "user-api").openapi[1].baseUrl = HttpUrl(8080)
              /\ Named(result, "order-api").openapi # <<>>
              /\ Named(result, "order-api").openapi[1].title = "Order API"
              /\ Named(result, "order-api").openapi[1].baseUrl = HttpUrl(9090)
              /\ Named(result, "frontend").openapi = <<>>
              /\ Named(result, "postgres").openapi = <<>>

\* C13 witness: the scan of the sample project has returned its result, with
\* both spec files discovered and parsed.
C13_Witness ==
    /\ fs = SampleProject
    /\ pc = "scanned"
    /\ Len(scanResult[1].discoveredSpecs) = 2
    /\ Len(parsedSpecs) = 2

\* Whether the running direct call is parsePort(token) and has returned.
Parsed(token) == pc = "done" /\ call = Call("parsePort", token)

\* The PortMapping a direct call returned.
Mapping(h, c, protocol) == <<<<[host |-> h, container |-> c, protocol |-> protocol]>>>>

\* C14: for all integers h, c, n and every protocol name p, parsePort("h:c/p")
\* is {host h, container c, protocol p}; parsePort("h:c") is {host h,
\* container c}; parsePort("n") and parsePort(n) are {host n, container n};
\* parsePort("ip:h:c") is {host h, container c} whatever the first segment; the
\* result has a protocol only when the token had a /protocol suffix.
C14_ParsePortGrammar ==
    /\ \A h, c \in PortNumbers :
          /\ Parsed(YStr(Token2(h, c))) => ret = Mapping(h, c, <<>>)
          /\ \A p \in Protocols :
                Parsed(YStr(WithProtocol(Token2(h, c), p))) => ret = Mapping(h, c, <<p>>)
          /\ \A ip \in IpTexts :
                /\ Parsed(YStr(Token3(ip, h, c))) => ret = Mapping(h, c, <<>>)
                /\ \A p \in Protocols :
                      Parsed(YStr(WithProtocol(Token3(ip, h, c), p)))
                          => ret = Mapping(h, c, <<p>>)
    /\ \A n \in PortNumbers :
          /\ Parsed(YNum(n)) => ret = Mapping(n, n, <<>>)
          /\ Parsed(YStr(IntChars(n))) => ret = Mapping(n, n, <<>>)
          /\ \A p \in Protocols :
                Parsed(YStr(WithProtocol(IntChars(n), p))) => ret = Mapping(n, n, <<p>>)
    /\ (pc = "done" /\ call.fn = "parsePort" /\ ret[1] # <<>> /\ ret[1][1].protocol # <<>>)
          => (call.arg.t = "str" /\ LastIndexOf(call.arg.v, "/") # 0)

\* C14 witness: parsePort("127.0.0.1:8080:80/tcp") has returned host 8080,
\* container 80, protocol tcp.
C14_Witness ==
    /\ Parsed(YStr(WithProtocol(Token3(<<"1", "2", "7", ".", "0", ".", "0", ".", "1">>,
                                       8080, 80), <<"t", "c", "p">>)))
    /\ ret = Mapping(8080, 80, <<<<"t", "c", "p">>>>)

\* Whether a segment is the numeral of an integer: an optional sign and one or
\* more digits (leading blanks allowed), and nothing after them.
IsInteger(seg) ==
    LET body == SkipSpaces(seg)
        digits == IF body # <<>> /\ Head(body) \in {"-", "+"} THEN Tail(body) ELSE body
    IN  digits # <<>> /\ \A k \in 1..Len(digits) : digits[k] \in Digits

\* The segments of a string token once its /protocol suffix is removed.
SegmentsOf(str) ==
    LET slashIdx == LastIndexOf(str, "/")
    IN  Split(IF slashIdx # 0 THEN SubSeq(str, 1, slashIdx - 1) ELSE str, ":", <<>>)

\* The segments parsePort reads as host and container.
HostContainerOf(segments) ==
    IF Len(segments) = 3 THEN {segments[2], segments[3]}
    ELSE {segments[k] : k \in 1..Len(segments)}

\* A string token with no or more than three segments, or with a host or
\* container segment that is not an integer.
Unparseable(str) ==
    LET segments == SegmentsOf(str)
    IN  \/ Len(segments) = 0
        \/ Len(segments) > 3
        \/ \E seg \in HostContainerOf(segments) : ~IsInteger(seg)

\* C15: parsePort returns null, never a PortMapping, for every string token
\* that (after removing the /protocol suffix) has zero or more than three
\* segments or a host/container segment that is not an integer, such as
\* "not-a-port" or a numeral followed by other characters.
C15_UnparseableIsNull ==
    (pc = "done" /\ call.fn = "parsePort" /\ call.arg.t = "str" /\ Unparseable(call.arg.v))
        => ret = <<<<>>>>

\* C16: every PortMapping parsePort returns has host >= 1 and container >= 1,
\* for number tokens and string tokens alike, zero and negative numbers
\* included.
C16_PortsArePositive ==
    (pc = "done" /\ call.fn = "parsePort" /\ ret[1] # <<>>)
        => (ret[1][1].host >= 1 /\ ret[1][1].container >= 1)

\* Whether the running direct call is fn(arg) and has returned or raised.
Returned(fn) == pc = "done" /\ call.fn = fn

\* Whether the direct call locates the Compose file of a project directory.
LocatesCompose == call.fn \in {"findComposeFile", "parseProjectCompose"}

\* Whether the k-th conventional Compose filename is a file of the called
\* project directory.
ComposeFileAt(k) ==
    PathResolve(PathJoin(call.arg, P(FALSE, <<COMPOSE_FILENAMES[k]>>))) \in DOMAIN fs

\* C17: locating the Compose file returns the first of docker-compose.yml,
\* docker-compose.yaml, compose.yml, compose.yaml that exists, whichever
\* lower-priority files also exist; when none of the four exists,
\* findComposeFile returns null and parseProjectCompose fails with NotFound,
\* its error naming all four filenames.
C17_ComposeFilePriority ==
    /\ COMPOSE_FILENAMES
          = <<"docker-compose.yml", "docker-compose.yaml", "compose.yml", "compose.yaml">>
    /\ \A k \in 1..4 :
          (LocatesCompose /\ ComposeFileAt(k) /\ \A j \in 1..(k - 1) : ~ComposeFileAt(j)) =>
              LET first == PathJoin(call.arg, P(FALSE, <<COMPOSE_FILENAMES[k]>>))
              IN  /\ Returned("findComposeFile") => ret = <<<<first>>>>
                  /\ Returned("parseProjectCompose") =>
                        /\ ret[1].error = ""
                        /\ ret[1].result[1].filePath = first
    /\ (LocatesCompose /\ \A k \in 1..4 : ~ComposeFileAt(k)) =>
          /\ Returned("findComposeFile") => ret = <<<<>>>>
          /\ Returned("parseProjectCompose") =>
                /\ ret[1].error = "NotFound"
                /\ ret[1].result = <<>>
                /\ ret[1].looked = <<"docker-compose.yml", "docker-compose.yaml",
                                     "compose.yml", "compose.yaml">>

\* C17 witness: findComposeFile has returned docker-compose.yaml for a directory
\* that also holds compose.yml and compose.yaml but no docker-compose.yml.
C17_Witness ==
    /\ Returned("findComposeFile")
    /\ ~ComposeFileAt(1) /\ ComposeFileAt(2) /\ ComposeFileAt(3) /\ ComposeFileAt(4)
    /\ ret = <<<<PathJoin(call.arg, P(FALSE, <<"docker-compose.yaml">>))>>>>

\* Whether the Compose file of the direct call is read and parsed into a
\* document that is not a mapping, or whose top-level services is absent or is
\* not a mapping.
NoServicesMapping ==
    /\ PathResolve(call.arg) \in DOMAIN fs
    /\ fs[PathResolve(call.arg)].syntax = "ok"
    /\ LET doc == fs[PathResolve(call.arg)].doc
       IN  \/ doc.t # "map"
           \/ Get(doc, "services") = <<>>
           \/ Get(doc, "services")[1].t # "map"

\* C18: parseDockerCompose fails with SchemaViolation, and returns no
\* DockerComposeResult, whenever the parsed document is not a mapping or its
\* top-level services is absent or is not a mapping (a sequence, a scalar).
C18_SchemaViolation ==
    (Returned("parseDockerCompose") /\ NoServicesMapping)
        => (ret[1].error = "SchemaViolation" /\ ret[1].result = <<>>)

\* Whether the direct call parsed the Compose document doc and returned.
ParsedCompose(doc) ==
    /\ Returned("parseDockerCompose")
    /\ fs = Files({<<<<"docker-compose.yml">>, doc>>})
    /\ ret[1].error = ""

\* The dependsOn of the first service of the returned DockerComposeResult.
DependsOnOfFirst == ret[1].result[1].services[1].dependsOn

\* C19: for every sequence of distinct service names, depends_on in the short
\* form (a sequence of the names) and in the long form (a mapping with the
\* names as keys in that order) both yield dependsOn equal to the sequence,
\* order preserved; an absent depends_on or any other shape yields the empty
\* sequence.
C19_DependsOnForms ==
    /\ Returned("parseDockerCompose") =>
          \A doc \in DependsDocs : fs = Files({<<<<"docker-compose.yml">>, doc>>})
                                      => ret[1].error = ""
    /\ \A names \in DependsLists :
          /\ ParsedCompose(DependsCompose(ShortForm(names))) => DependsOnOfFirst = names
          /\ ParsedCompose(DependsCompose(LongForm(names))) => DependsOnOfFirst = names
    /\ \A other \in OtherShapes :
          ParsedCompose(DependsCompose(other)) => DependsOnOfFirst = <<>>
    /\ ParsedCompose(NoDependsCompose) => DependsOnOfFirst = <<>>

\* The six conventional spec filenames and the 18 conventional candidates: the
\* filenames at the root, under docs/ and under api/.
SixNames ==
    {"openapi.json", "openapi.yml", "openapi.yaml",
     "swagger.json", "swagger.yml", "swagger.yaml"}

Conventional ==
    {<<n>> : n \in SixNames} \cup {<<d, n>> : d \in {"docs", "api"}, n \in SixNames}

\* The k-th candidate joined to the directory of the direct call.
Candidate(k) == PathJoin(call.arg, P(FALSE, SPEC_SEARCH_PATHS[k]))

\* Whether the k-th candidate is a file of the directory.
OnDisk(k) == PathResolve(Candidate(k)) \in DOMAIN fs

CalledFileExists == PathResolve(call.arg) \in DOMAIN fs

CalledFile == fs[PathResolve(call.arg)]

\* C21: parseSpec fails with NotFound when the path does not exist, with
\* MalformedDocument when content parsing fails, with SchemaViolation when the
\* parsed content is not a mapping (an empty, scalar or sequence document),
\* with NotAnAPISpec when it is a mapping with neither an openapi nor a swagger
\* field; each failing input gets the first of these that applies.
C21_SpecFailureKinds ==
    Returned("parseOpenAPISpec") =>
        /\ ~CalledFileExists => ret[1].error = "NotFound"
        /\ (CalledFileExists /\ CalledFile.syntax # "ok") => ret[1].error = "MalformedDocument"
        /\ (CalledFileExists /\ CalledFile.syntax = "ok" /\ CalledFile.doc.t # "map")
              => ret[1].error = "SchemaViolation"
        /\ (/\ CalledFileExists /\ CalledFile.syntax = "ok" /\ CalledFile.doc.t = "map"
            /\ Get(CalledFile.doc, "openapi") = <<>>
            /\ Get(CalledFile.doc, "swagger") = <<>>)
              => ret[1].error = "NotAnAPISpec"

\* Whether the direct call parsed a spec document and returned its result.
Accepted == Returned("parseOpenAPISpec") /\ ret[1].error = ""

\* The url of the first servers entry of a document, if there is one.
FirstServerUrl(doc) ==
    LET servers == Get(doc, "servers")
    IN  IF servers # <<>> /\ servers[1].t = "seq" /\ Len(servers[1].items) > 0
        THEN Get(servers[1].items[1], "url")
        ELSE <<>>

\* schemes[0], or "http" when the document gives no scheme.
SchemeOf(doc) ==
    LET schemes == Get(doc, "schemes")
    IN  IF schemes # <<>> /\ schemes[1].t = "seq" /\ Len(schemes[1].items) > 0
        THEN schemes[1].items[1].v
        ELSE "http"

\* C22: for every accepted spec document, baseUrl is the url of the first
\* servers entry when that exists; otherwise, for a document with a swagger
\* field and a host, it is scheme://host+basePath, the scheme being schemes[0]
\* or "http" when no scheme is given, basePath defaulting to empty; otherwise
\* baseUrl is unset.
C22_BaseUrlResolution ==
    Accepted =>
        LET doc == CalledFile.doc
            url == FirstServerUrl(doc)
            host == Get(doc, "host")
            basePath == Get(doc, "basePath")
        IN  ret[1].result[1].baseUrl =
                IF url # <<>> THEN <<url[1].v>>
                ELSE IF Get(doc, "swagger") # <<>> /\ host # <<>>
                THEN <<[kind |-> "absolute", scheme |-> SchemeOf(doc),
                        port |-> host[1].v.port,
                        path |-> IF basePath = <<>> THEN "" ELSE basePath[1].v]>>
                ELSE <<>>

\* The schema a document writes on the first response of GET /items.
WrittenSchema(doc) ==
    LET response == GetOpt(GetOpt(GetOpt(GetOpt(Get(doc,
                        "paths"), "/items"), "get"), "responses"), "200")
        json == GetOpt(GetOpt(GetOpt(response, "content"), "application/json"), "schema")
    IN  IF json # <<>> THEN json ELSE GetOpt(response, "schema")

\* The lookup pool of a document.
LookupPool(doc) ==
    LET schemas == GetOpt(Get(doc, "components"), "schemas")
    IN  IF schemas # <<>> THEN schemas[1] ELSE Get(doc, "definitions")[1]

\* Whether the direct call parsed a document that writes a schema on GET /items.
ParsedSchema == Accepted /\ CalledFile \in RefSpecs

\* The schema returned for the first response of the first endpoint.
ReturnedSchema == ret[1].result[1].endpoints[1].responses[1].schema

\* Whether a schema is a reference of exactly the form #/components/schemas/<name>
\* or #/definitions/<name>.
ExactRef(schema) ==
    /\ Get(schema, "$ref") # <<>>
    /\ Get(schema, "$ref")[1].v.before = ""
    /\ Get(schema, "$ref")[1].v.pool \in {"components/schemas", "definitions"}

\* C23: a response schema is replaced by the pooled schema only when its $ref
\* is exactly #/components/schemas/<name> or #/definitions/<name> and <name> is
\* in the lookup pool; any other reference (text before the '#', another pool,
\* an unknown name) is returned as written; the pooled schema is returned
\* without following a reference it holds itself.
C23_RefResolution ==
    ParsedSchema =>
        LET doc == CalledFile.doc
            schema == WrittenSchema(doc)[1]
            pooled == IF Get(schema, "$ref") # <<>>
                      THEN Get(LookupPool(doc), Get(schema, "$ref")[1].v.name)
                      ELSE <<>>
        IN  ReturnedSchema = IF ExactRef(schema) /\ pooled # <<>> THEN pooled
                             ELSE <<schema>>

\* C24: a Swagger 2.x response whose schema is an array schema with items
\* {$ref: "#/definitions/Item"}, Item being defined, is returned with a
\* properties field.
C24_ArrayItemsResolved ==
    (ParsedSchema /\ WrittenSchema(CalledFile.doc) = <<ArrayOfItems>>
        /\ Get(CalledFile.doc, "swagger") # <<>>)
      => Get(ReturnedSchema[1], "properties") # <<>>

\* The seven verbs with their uppercase names.
VerbNames ==
    { <<"get", "GET">>, <<"post", "POST">>, <<"put", "PUT">>, <<"delete", "DELETE">>,
      <<"patch", "PATCH">>, <<"options", "OPTIONS">>, <<"head", "HEAD">> }

\* The entries of a document's paths mapping.
PathEntries(doc) ==
    LET paths == Get(doc, "paths")
    IN  IF paths = <<>> \/ paths[1].t # "map" THEN {}
        ELSE {paths[1].pairs[k] : k \in 1..Len(paths[1].pairs)}

\* The returned endpoints are exactly one per <<path, uppercase verb>> of the set.
OnePerPair(pairs) ==
    LET endpoints == ret[1].result[1].endpoints
    IN  /\ \A pr \in pairs :
              Cardinality({k \in 1..Len(endpoints) :
                              endpoints[k].path = pr[1] /\ endpoints[k].method = pr[2]}) = 1
        /\ \A k \in 1..Len(endpoints) : <<endpoints[k].path, endpoints[k].method>> \in pairs

\* The <<path, uppercase verb>> pairs whose verb is a key of the path entry.
KeyedPairs(doc) ==
    UNION {{<<e[1], v[2]>> : v \in {w \in VerbNames : Get(e[2], w[1]) # <<>>}} :
              e \in PathEntries(doc)}

\* The pairs whose verb key holds an operation (a truthy value).
OperationPairs(doc) ==
    UNION {{<<e[1], v[2]>> : v \in {w \in VerbNames : Truthy(Get(e[2], w[1]))}} :
              e \in PathEntries(doc)}

\* Whether the direct call parsed one of the documents written for their paths.
ParsedPaths == Accepted /\ CalledFile \in PathsSpecs

ValidAbsolute(url) == url.kind = "absolute" /\ (url.port = <<>> \/ url.port[1] <= 65535)

\* C26: the port taken from a spec's baseUrl is the URL's explicit port when
\* one is written, otherwise 443 for https and 80 for http; a baseUrl that is
\* not a valid absolute URL, or has another scheme and no explicit port, gives
\* no port (null), which port matching skips.
C26_PortOfBaseUrl ==
    Returned("extractPortFromUrl") =>
        ret[1].port =
            IF ~ValidAbsolute(call.arg) THEN <<>>
            ELSE IF call.arg.port # <<>> THEN call.arg.port
            ELSE IF call.arg.scheme = "https" THEN <<443>>
            ELSE IF call.arg.scheme = "http" THEN <<80>>
            ELSE <<>>

\* The services mapping a Compose file writes, as its pairs in source order.
WrittenServices == Get(CalledFile.doc, "services")[1].pairs

\* Whether the direct call parsed one of the documents written for their order.
ParsedOrder ==
    /\ Returned("parseDockerCompose")
    /\ CalledFileExists
    /\ CalledFile \in OrderDocs

RECURSIVE ParseablePorts(_)
\* The parsePort results of the parseable entries of a ports list, in order.
ParseablePorts(raw) ==
    IF raw = <<>> THEN <<>>
    ELSE LET first == parsePort(Head(raw))
         IN  (IF first = <<>> THEN <<>> ELSE <<first[1]>>) \o ParseablePorts(Tail(raw))

\* C27: parseDockerCompose returns the services in the source order of the
\* services mapping, for every set of service names, and each service's ports
\* are the parsePort results of its parseable entries in their order: an
\* unparseable entry is dropped and the parse does not fail.
C27_ServicesInSourceOrder ==
    ParsedOrder =>
        /\ ret[1].error = ""
        /\ Len(ret[1].result[1].services) = Len(WrittenServices)
        /\ \A k \in 1..Len(WrittenServices) :
              /\ ret[1].result[1].services[k].name = WrittenServices[k][1]
              /\ ret[1].result[1].services[k].ports =
                    ParseablePorts(Get(WrittenServices[k][2], "ports")[1].items)

\* Whether scoped discovery finds the resolved path `at` in the build context
\* of service b.
CoLocated(at, b) ==
    /\ TruthyPath(services[b].build)
    /\ \E k \in 1..Len(discoverServiceSpecs(fs, projectPath, services[b].build)) :
          PathResolve(discoverServiceSpecs(fs, projectPath, services[b].build)[k]) = at

\* A step of Pass 2 attaches a spec to the service at idx.
AttachesByPort ==
    /\ pc = "pass2" /\ idx <= Len(enriched)
    /\ enriched[idx].openapi = <<>>
    /\ Len(enriched') = Len(enriched)
    /\ enriched'[idx].openapi # <<>>

\* C28: Pass 1 has run for every service before a Pass 2 step runs, and a
\* Pass 2 step never attaches to a service a spec that scoped discovery finds
\* in the build context of another service B unless B holds a spec from Pass 1.
C28_CoLocationOutranksPorts ==
    /\ [](pc = "pass2" => Len(enriched) = Len(services))
    /\ [][AttachesByPort =>
            \A b \in (1..Len(services)) \ {idx} :
                CoLocated(AttachedPath(enriched', idx), b) => enriched[b].openapi # <<>>]_vars

\* C28 witness: the call returned; the first service exposes container port
\* 9090 and has no build context, the second holds the co-located spec whose
\* baseUrl has port 9090, and the first stays without a spec.
C28_Witness ==
    /\ pc = "returned"
    /\ Len(services) = 2
    /\ services[1].build = <<>>
    /\ HasContainerPort(services[1], 9090)
    /\ associated[1][1].openapi = <<>>
    /\ associated[1][2].openapi # <<>>
    /\ associated[1][2].openapi[1].baseUrl = HttpUrl(9090)
    /\ CoLocated(AttachedPath(associated[1], 2), 2)

\* The services of the ScanResult that hold a spec.
ScanAttached == Attached(scanResult[1].services)

\* C29: in every ScanResult, each spec attached to a service is the result of
\* parsing a path listed in discoveredSpecs; a discovered path whose parse
\* failed is still listed in discoveredSpecs and the file it names is attached
\* to no service.
C29_AttachedSpecsWereParsed ==
    pc = "scanned" =>
        LET result == scanResult[1]
            listed == result.discoveredSpecs
        IN  /\ \A k \in ScanAttached :
                  \E j \in 1..Len(listed) :
                      /\ ParsesOk(listed[j])
                      /\ result.services[k].openapi = parseOpenAPISpec(fs, listed[j]).result
            /\ \A e \in 1..Len(parseErrors) :
                  /\ \E j \in 1..Len(listed) : listed[j] = parseErrors[e].filePath
                  /\ \A k \in ScanAttached :
                        AttachedPath(result.services, k) # PathResolve(parseErrors[e].filePath)

\* C29 witness: a finished scan in which a spec file in the build context of a
\* service failed to parse, that service is without a spec and another service
\* holds one.
C29_Witness ==
    /\ pc = "scanned"
    /\ ScanAttached # {}
    /\ \E e \in 1..Len(parseErrors), k \in 1..Len(scanResult[1].services) :
          /\ scanResult[1].services[k].openapi = <<>>
          /\ TruthyPath(scanResult[1].services[k].build)
          /\ \E c \in 1..Len(discoverServiceSpecs(fs, projectPath,
                                                  scanResult[1].services[k].build)) :
                PathResolve(discoverServiceSpecs(fs, projectPath,
                                                 scanResult[1].services[k].build)[c])
                  = PathResolve(parseErrors[e].filePath)

RECURSIVE RunPass1(_, _, _)
\* Pass 1 run from service k on over the inputs as they are now.
RunPass1(k, out, used) ==
    IF k > Len(services) THEN [enriched |-> out, used |-> used]
    ELSE LET r == IF TruthyPath(services[k].build)
                  THEN Pass1Scan(discoverServiceSpecs(fs, projectPath, services[k].build),
                                 parsedSpecs, used)
                  ELSE [matched |-> <<>>, used |-> used]
         IN  RunPass1(k + 1, Append(out, Enrich(services[k], r.matched)), r.used)

RECURSIVE RunPass2(_, _, _)
\* Pass 2 run from enriched service k on.
RunPass2(k, list, used) ==
    IF k > Len(list) THEN list
    ELSE IF list[k].openapi # <<>> \/ Len(list[k].ports) = 0
    THEN RunPass2(k + 1, list, used)
    ELSE LET r == Pass2Scan(parsedSpecs, ContainerPorts(list[k]), used)
         IN  RunPass2(k + 1, [list EXCEPT ![k].openapi = r.matched], r.used)

\* What a call of associate with the inputs and filesystem as they are now returns.
CalledAgain ==
    LET first == RunPass1(1, <<>>, {})
    IN  RunPass2(1, first.enriched, first.used)

\* C30: associate does not modify its inputs: no step changes the service
\* list or the parsed-spec list, after the call no input service carries an
\* attached spec, and a call with the inputs as the first call left them
\* returns a result equal to the first.
C30_InputsUntouched ==
    /\ [][services' = services /\ parsedSpecs' = parsedSpecs]_vars
    /\ [](pc = "returned" =>
            /\ \A k \in 1..Len(services) : "openapi" \notin DOMAIN services[k]
            /\ associated[1] = CalledAgain)

\* C30 witness: the call returned with two services attached, one in each pass.
C30_Witness ==
    /\ pc = "returned"
    /\ Len(services) = 2
    /\ \E i, j \in Attached(associated[1]) :
          /\ i # j
          /\ TruthyPath(services[i].build)
          /\ CoLocated(AttachedPath(associated[1], i), i)
          /\ services[j].build = <<>>

====
